---- MODULE Spec2Model ----
(***************************************************************************)
(* Hydrological core of Nexus_AI: DEM conditioning (fill_depressions,     *)
(* resolve_flats), D8 flow direction, flow accumulation (Kahn's            *)
(* topological sort), channel extraction and HAND.                         *)
(*                                                                         *)
(* Grids are functions from cells <<i, j>> (0-based row, column) to        *)
(* values.  An elevation is a pair <<b, g>> standing for the real number   *)
(*     b + g * eps / (SqrtScale * dmax)                                    *)
(* where b is the elevation read from the raster, and g is the gradient    *)
(* resolve_flats adds: SqrtScale times the Euclidean distance computed by  *)
(* the distance transform.  eps = 1e-4 and dmax (the largest distance of   *)
(* the grid) are the same for every cell, so that elevations add,          *)
(* subtract and compare componentwise, b first.                            *)
(***************************************************************************)
EXTENDS Integers, Sequences, FiniteSets, TLC

VARIABLES
    pc,              \* position in the pipeline
    rows, cols,      \* shape of the grids
    nodata,          \* NoData value of the raster: {} (None) or {v}
    dem,             \* raw elevation grid (dem_array)
    filled_dem,      \* output of fill_depressions
    iterations,      \* stats['iterations'] of fill_depressions
    conditioned_dem, \* output of resolve_flats: input of flow direction, HAND
    flow_direction,  \* D8 codes
    nodata_mask,     \* boolean NoData mask given to accumulation and HAND
    accumulation,    \* accumulation grid of compute_flow_accumulation
    indegree,        \* Kahn indegree of compute_flow_accumulation
    queue,           \* deque of compute_flow_accumulation
    processed,       \* processed counter of compute_flow_accumulation
    channel_mask,    \* channel mask given to compute_hand
    hand,            \* HAND grid of compute_hand
    hqueue,          \* deque of compute_hand
    hprocessed,      \* processed boolean grid of compute_hand
    cells_processed, \* cells_processed counter of compute_hand
    snapped_point,   \* pour point given to delineate_catchment
    catchment,       \* catchment mask of delineate_catchment
    cqueue,          \* deque of delineate_catchment
    visited,         \* visited set of delineate_catchment
    flood_masks,     \* masks flood_mask has returned, by water level
    dem_file,        \* content of the GeoTIFF at dem_path
    cache_file,      \* content of the GeoTIFF at cache_path
    returned,        \* ConditionedDEM returned by the last condition_dem
    taken,           \* cells compute_flow_accumulation has taken from its queue, in order
    water_level,     \* water level of the mask given to flood_polygon
    feature,         \* GeoJSON Feature returned by flood_polygon
    polygon,         \* what catchment_to_polygon has returned
    orig_point,      \* (orig_row, orig_col) of snap_pour_point
    search_radius,   \* search_radius of snap_pour_point
    snap_result      \* (snapped_row, snapped_col, snap_distance) snap_pour_point returns

\* the state of delineate_catchment
catchmentVars == <<snapped_point, catchment, cqueue, visited>>

\* the results of the calls of flood_mask
floodVars == <<flood_masks>>

\* the files condition_dem reads and writes, and what it returns
cacheVars == <<dem_file, cache_file, returned>>

\* the order in which compute_flow_accumulation takes the cells
orderVars == <<taken>>

\* the results of flood_polygon and catchment_to_polygon
polygonVars == <<water_level, feature, polygon>>

\* the arguments and the result of snap_pour_point
snapVars == <<orig_point, search_radius, snap_result>>

vars == <<pc, rows, cols, nodata, dem, filled_dem, iterations, conditioned_dem,
          flow_direction, nodata_mask, accumulation, indegree, queue,
          processed, channel_mask, hand, hqueue, hprocessed, cells_processed,
          catchmentVars, floodVars, cacheVars, orderVars, polygonVars, snapVars>>

(***************************************************************************)
(* Bounds of the model                                                     *)
(***************************************************************************)
\* shape of the grid run through the whole pipeline
Rows == 3

Cols == 3

\* raw elevations are 0..MaxElev
MaxElev == 1

\* shape of the grids given to compute_flow_accumulation alone
AccRows == 2

AccCols == 2

\* raw elevations of the 3x3 scenario with a lowest centre are 0..ScenarioMaxElev
ScenarioMaxElev == 2

\* shape of the grids given to compute_hand alone
HandRows == 1

HandCols == 3

\* shape of the grids given to delineate_catchment alone
CatchRows == 2

CatchCols == 2

\* shape and raw elevations 0..ScenarioBMaxElev of the scenario whose grid
\* decreases toward the bottom-right corner
ScenarioBRows == 5

ScenarioBCols == 5

ScenarioBMaxElev == 9

\* HAND values of the grids given to flood_mask alone are 0..MaxHand
MaxHand == 2

\* shape of the grids routed from accumulation to channels or a catchment
RouteRows == 1

RouteCols == 4

\* shape of the accumulation grid given to snap_pour_point
SnapRows == 2

SnapCols == 2

\* largest accumulation of that grid
MaxAcc == 1

\* largest search_radius
MaxRadius == 1

\* how far off the grid the original index may lie, in rows and in columns
OrigMargin == 3

\* shape of the masks given to flood_polygon and catchment_to_polygon
PolyRows == 2

PolyCols == 2

\* shape of the grid in the DEM file given to condition_dem
CacheRows == 2

CacheCols == 2

(***************************************************************************)
(* Grid helpers                                                            *)
(***************************************************************************)
Cells(r, c) == (0..(r - 1)) \X (0..(c - 1))

InBounds(i, j, r, c) == 0 <= i /\ i < r /\ 0 <= j /\ j < c

\* cells in the order of "for i in range(rows): for j in range(cols)"
CellSeq(r, c) == [k \in 1..(r * c) |-> <<(k - 1) \div c, (k - 1) % c>>]

\* in-bounds part of the 3x3 window of a size=3 filter centred at cell
Window(cell, r, c) ==
    {n \in Cells(r, c) : n[1] - cell[1] \in {-1, 0, 1} /\ n[2] - cell[2] \in {-1, 0, 1}}

ElevLess(x, y) == x[1] < y[1] \/ (x[1] = y[1] /\ x[2] < y[2])

ElevLeq(x, y) == x = y \/ ElevLess(x, y)

ElevMin(S) == CHOOSE x \in S : \A y \in S : ElevLeq(x, y)

ElevMax(S) == CHOOSE x \in S : \A y \in S : ElevLeq(y, x)

ElevSub(x, y) == <<x[1] - y[1], x[2] - y[2]>>

ElevAdd(x, y) == <<x[1] + y[1], x[2] + y[2]>>

Zero == <<0, 0>>

\* valid_mask = dem_array != nodata, all True when nodata is None
ValidMask(grid, nd) == [cell \in DOMAIN grid |-> \A v \in nd : grid[cell] /= <<v, 0>>]

(***************************************************************************)
(* fill_depressions                                                        *)
(***************************************************************************)
max_iterations == 100

\* ndimage.minimum_filter(filled_dem, size=3, mode='constant', cval=np.inf):
\* the minimum of the 3x3 window, the cell itself included; the padding is
\* +inf and never the minimum
MinimumFilter(grid, r, c) ==
    [cell \in DOMAIN grid |-> ElevMin({grid[n] : n \in Window(cell, r, c)})]

\* is_pit = (filled_dem < min_neighbor) & valid_mask, the four edges cleared
IsPit(grid, valid, r, c) ==
    LET min_neighbor == MinimumFilter(grid, r, c)
    IN  {cell \in DOMAIN grid :
            /\ ElevLess(grid[cell], min_neighbor[cell])
            /\ valid[cell]
            /\ cell[1] /= 0 /\ cell[1] /= r - 1
            /\ cell[2] /= 0 /\ cell[2] /= c - 1}

\* values of the window that differ from the centre: x[x != x[len(x)//2]]
Unequal(grid, cell, r, c) == {grid[n] : n \in Window(cell, r, c)} \ {grid[cell]}

\* np.min of an empty array raises ValueError: a cell off the edge (no +inf
\* padding in its window) whose window holds one value only
NeighborMinRaises(grid, r, c) ==
    \E cell \in DOMAIN grid :
        /\ Cardinality(Window(cell, r, c)) = 9
        /\ Unequal(grid, cell, r, c) = {}

\* neighbor_min of the generic_filter at a cell off the edge
NeighborMin(grid, cell, r, c) == ElevMin(Unequal(grid, cell, r, c))

RECURSIVE FillLoop(_, _, _, _, _)
FillLoop(grid, valid, iteration, r, c) ==
    LET is_pit == IsPit(grid, valid, r, c)
    IN  IF is_pit = {}
        THEN [dem |-> grid, iterations |-> iteration + 1, raised |-> FALSE]
        ELSE IF NeighborMinRaises(grid, r, c)
        THEN [dem |-> grid, iterations |-> iteration + 1, raised |-> TRUE]
        ELSE LET next == [cell \in DOMAIN grid |->
                             IF cell \in is_pit
                             THEN NeighborMin(grid, cell, r, c)
                             ELSE grid[cell]]
             IN  IF iteration + 1 >= max_iterations
                 THEN [dem |-> next, iterations |-> iteration + 1, raised |-> FALSE]
                 ELSE FillLoop(next, valid, iteration + 1, r, c)

\* fill_depressions(dem_array, nodata): (filled_dem, stats['iterations'])
fill_depressions(dem_array, nd, r, c) ==
    LET valid_mask == ValidMask(dem_array, nd)
        res == FillLoop(dem_array, valid_mask, 0, r, c)
    IN  [res EXCEPT !.dem = [cell \in DOMAIN dem_array |->
                                IF valid_mask[cell] THEN res.dem[cell]
                                ELSE dem_array[cell]]]

(***************************************************************************)
(* resolve_flats                                                           *)
(***************************************************************************)
\* SqrtFx[q + 1] = floor(SqrtScale * sqrt(q)) for the squared distances q,
\* with SqrtScale = 10000
SqrtFx ==
    <<0, 10000, 14142, 17320, 20000, 22360, 24494, 26457, 28284, 30000, 31622,
      33166, 34641, 36055, 37416, 38729, 40000, 41231, 42426, 43588, 44721,
      45825, 46904, 47958, 48989, 50000, 50990, 51961, 52915, 53851, 54772,
      55677, 56568, 57445, 58309, 59160, 60000, 60827, 61644, 62449, 63245,
      64031, 64807, 65574, 66332, 67082, 67823, 68556, 69282, 70000, 70710>>

IntMin(S) == CHOOSE x \in S : \A y \in S : x <= y

\* ndimage.distance_transform_edt(valid_mask), squared: the distance of a
\* valid cell to the nearest cell that is not valid.  Without any such cell
\* the feature transform keeps what it was initialised to, row -1 and
\* column 0, and the distance of cell (i, j) is the one to (-1, 0).
EdtSq(valid) ==
    LET background == {z \in DOMAIN valid : ~valid[z]}
    IN  [cell \in DOMAIN valid |->
            IF ~valid[cell] THEN 0
            ELSE IF background = {}
            THEN (cell[1] + 1) * (cell[1] + 1) + cell[2] * cell[2]
            ELSE IntMin({(cell[1] - z[1]) * (cell[1] - z[1])
                         + (cell[2] - z[2]) * (cell[2] - z[2]) : z \in background})]

\* _detect_flats: (max_neighbor == min_neighbor) & (max_neighbor == dem) & valid_mask
DetectFlats(grid, valid, r, c) ==
    {cell \in DOMAIN grid :
        /\ ElevMax({grid[n] : n \in Window(cell, r, c)})
             = ElevMin({grid[n] : n \in Window(cell, r, c)})
        /\ ElevMax({grid[n] : n \in Window(cell, r, c)}) = grid[cell]
        /\ valid[cell]}

\* resolve_flats with the gradient subtracted: inflated_dem[...] -= gradient[...]
resolve_flats_subtracts(filled, nd, r, c) ==
    LET valid_mask == ValidMask(filled, nd)
        edge_distance == EdtSq(valid_mask)
        is_flat == DetectFlats(filled, valid_mask, r, c)
    IN  [cell \in DOMAIN filled |->
            IF cell \in is_flat /\ valid_mask[cell]
            THEN ElevSub(filled[cell], <<0, SqrtFx[edge_distance[cell] + 1]>>)
            ELSE filled[cell]]

\* resolve_flats with the mask the wrong way round: valid_mask = filled_dem == nodata
resolve_flats_inverted_mask(filled, nd, r, c) ==
    LET valid_mask == IF nd = {} THEN ValidMask(filled, nd)
                      ELSE [cell \in DOMAIN filled |-> ~ValidMask(filled, nd)[cell]]
        edge_distance == EdtSq(valid_mask)
        is_flat == DetectFlats(filled, valid_mask, r, c)
    IN  [cell \in DOMAIN filled |->
            IF cell \in is_flat /\ valid_mask[cell]
            THEN ElevAdd(filled[cell], <<0, SqrtFx[edge_distance[cell] + 1]>>)
            ELSE filled[cell]]

\* resolve_flats(filled_dem, nodata): inflated_dem.  The gradient
\* eps * edge_distance / edge_distance.max() is SqrtFx of the squared distance
\* in the unit of the second component of an elevation.
resolve_flats(filled, nd, r, c) ==
    LET valid_mask == ValidMask(filled, nd)
        edge_distance == EdtSq(valid_mask)
        is_flat == DetectFlats(filled, valid_mask, r, c)
    IN  [cell \in DOMAIN filled |->
            IF cell \in is_flat /\ valid_mask[cell]
            THEN ElevAdd(filled[cell], <<0, SqrtFx[edge_distance[cell] + 1]>>)
            ELSE filled[cell]]

(***************************************************************************)
(* compute_flow_direction                                                  *)
(***************************************************************************)
\* (row_offset, col_offset, direction_code, distance_multiplier * 1000)
D8_NEIGHBORS ==
    << <<-1,  0,  64, 1000>>,
       <<-1,  1, 128, 1414>>,
       << 0,  1,   1, 1000>>,
       << 1,  1,   2, 1414>>,
       << 1,  0,   4, 1000>>,
       << 1, -1,   8, 1414>>,
       << 0, -1,  16, 1000>>,
       <<-1, -1,  32, 1414>>  >>

\* slope = (elevation - neighbor_elev) / (cell_size * dist_mult), kept as
\* <<difference, dist_mult>>; s > t by cross-multiplication
SlopeGreater(s, t) ==
    \/ s[1][1] * t[2] > t[1][1] * s[2]
    \/ /\ s[1][1] * t[2] = t[1][1] * s[2]
       /\ s[1][2] * t[2] > t[1][2] * s[2]

\* the loop over D8_NEIGHBORS with "if slope >= max_slope"
RECURSIVE SteepestFromLastTie(_, _, _, _, _, _, _, _)
SteepestFromLastTie(grid, mask, cell, k, best, code, r, c) ==
    IF k > Len(D8_NEIGHBORS) THEN code
    ELSE LET nb == D8_NEIGHBORS[k]
             ni == cell[1] + nb[1]
             nj == cell[2] + nb[2]
         IN  IF InBounds(ni, nj, r, c) /\ ~mask[<<ni, nj>>]
             THEN LET slope == <<ElevSub(grid[cell], grid[<<ni, nj>>]), nb[4]>>
                  IN  IF best = <<>> \/ ~SlopeGreater(best[1], slope)
                      THEN SteepestFromLastTie(grid, mask, cell, k + 1, <<slope>>, nb[3], r, c)
                      ELSE SteepestFromLastTie(grid, mask, cell, k + 1, best, code, r, c)
             ELSE SteepestFromLastTie(grid, mask, cell, k + 1, best, code, r, c)

\* the loop over D8_NEIGHBORS from index k on; best is <<>> while
\* max_slope is -inf
RECURSIVE SteepestFrom(_, _, _, _, _, _, _, _)
SteepestFrom(grid, mask, cell, k, best, code, r, c) ==
    IF k > Len(D8_NEIGHBORS) THEN code
    ELSE LET nb == D8_NEIGHBORS[k]
             ni == cell[1] + nb[1]
             nj == cell[2] + nb[2]
         IN  IF InBounds(ni, nj, r, c) /\ ~mask[<<ni, nj>>]
             THEN LET slope == <<ElevSub(grid[cell], grid[<<ni, nj>>]), nb[4]>>
                  IN  IF best = <<>> \/ SlopeGreater(slope, best[1])
                      THEN SteepestFrom(grid, mask, cell, k + 1, <<slope>>, nb[3], r, c)
                      ELSE SteepestFrom(grid, mask, cell, k + 1, best, code, r, c)
             ELSE SteepestFrom(grid, mask, cell, k + 1, best, code, r, c)

\* compute_flow_direction(conditioned_dem, nodata, cell_size)
compute_flow_direction(grid, nd, r, c) ==
    LET mask == [cell \in DOMAIN grid |-> ~ValidMask(grid, nd)[cell]]
    IN  [cell \in DOMAIN grid |->
            IF mask[cell] THEN 0
            ELSE SteepestFrom(grid, mask, cell, 1, <<>>, 0, r, c)]

(***************************************************************************)
(* compute_flow_accumulation                                               *)
(***************************************************************************)
\* dir_to_offset (flow.py), D8_DIR_TO_OFFSET (hand.py)
dir_to_offset ==
    [code \in {64, 128, 1, 2, 4, 8, 16, 32} |->
        CASE code = 64  -> <<-1,  0>>
          [] code = 128 -> <<-1,  1>>
          [] code = 1   -> << 0,  1>>
          [] code = 2   -> << 1,  1>>
          [] code = 4   -> << 1,  0>>
          [] code = 8   -> << 1, -1>>
          [] code = 16  -> << 0, -1>>
          [] code = 32  -> <<-1, -1>>]

\* (di, dj) = (i + dr, j + dc) for a cell whose code is in dir_to_offset
Downstream(fd, cell) ==
    <<cell[1] + dir_to_offset[fd[cell]][1], cell[2] + dir_to_offset[fd[cell]][2]>>

\* the cell has a code other than 0 that dir_to_offset knows
HasOffset(fd, cell) == fd[cell] /= 0 /\ fd[cell] \in DOMAIN dir_to_offset

\* upstream_cells of compute_flow_accumulation: for each cell the valid cells
\* whose code points at it, in row-major order (the target's mask is not read)
upstream_cells(fd, mask, r, c) ==
    [cell \in Cells(r, c) |->
        SelectSeq(CellSeq(r, c),
                  LAMBDA u : /\ ~mask[u]
                             /\ HasOffset(fd, u)
                             /\ Downstream(fd, u) = cell)]

\* indegree that counts one upstream cell at most
InitIndegreeAtMostOne(fd, mask, r, c) ==
    [cell \in Cells(r, c) |->
        IF ~mask[cell] /\ Len(upstream_cells(fd, mask, r, c)[cell]) > 0 THEN 1 ELSE 0]

\* indegree[i, j] = len(upstream_cells[(i, j)]) for the valid cells
InitIndegree(fd, mask, r, c) ==
    [cell \in Cells(r, c) |->
        IF ~mask[cell] THEN Len(upstream_cells(fd, mask, r, c)[cell]) ELSE 0]

\* start of compute_flow_accumulation up to the first test of "while queue"
AccStart ==
    /\ pc = "acc_start"
    /\ accumulation' = [cell \in Cells(rows, cols) |-> IF nodata_mask[cell] THEN 0 ELSE 1]
    /\ indegree' = InitIndegree(flow_direction, nodata_mask, rows, cols)
    /\ queue' = SelectSeq(CellSeq(rows, cols),
                          LAMBDA u : ~nodata_mask[u] /\ indegree'[u] = 0)
    /\ processed' = 0
    /\ taken' = <<>>
    /\ pc' = "acc_loop"
    /\ UNCHANGED <<rows, cols, nodata, dem, filled_dem, iterations, conditioned_dem,
                   flow_direction, nodata_mask, channel_mask, hand, hqueue,
                   hprocessed, cells_processed>>
    /\ UNCHANGED <<catchmentVars, floodVars, cacheVars, polygonVars, snapVars>>

\* AccPop with accumulation[di, dj] += 1
AccPopAddsOne ==
    /\ pc = "acc_loop"
    /\ queue /= <<>>
    /\ LET cell == Head(queue)
           d == Downstream(flow_direction, cell)
       IN  /\ processed' = processed + 1
           /\ taken' = Append(taken, cell)
           /\ IF /\ HasOffset(flow_direction, cell)
                 /\ InBounds(d[1], d[2], rows, cols)
                 /\ ~nodata_mask[d]
              THEN /\ accumulation' = [accumulation EXCEPT ![d] = @ + 1]
                   /\ indegree' = [indegree EXCEPT ![d] = @ - 1]
                   /\ queue' = IF indegree'[d] = 0
                               THEN Append(Tail(queue), d)
                               ELSE Tail(queue)
              ELSE /\ queue' = Tail(queue)
                   /\ UNCHANGED <<accumulation, indegree>>
    /\ UNCHANGED <<pc, rows, cols, nodata, dem, filled_dem, iterations, conditioned_dem,
                   flow_direction, nodata_mask, channel_mask, hand, hqueue,
                   hprocessed, cells_processed>>
    /\ UNCHANGED <<catchmentVars, floodVars, cacheVars, polygonVars, snapVars>>

\* one pass of the body of "while queue" of compute_flow_accumulation
AccPop ==
    /\ pc = "acc_loop"
    /\ queue /= <<>>
    /\ LET cell == Head(queue)
           d == Downstream(flow_direction, cell)
       IN  /\ processed' = processed + 1
           /\ taken' = Append(taken, cell)
           /\ IF /\ HasOffset(flow_direction, cell)
                 /\ InBounds(d[1], d[2], rows, cols)
                 /\ ~nodata_mask[d]
              THEN /\ accumulation' = [accumulation EXCEPT ![d] = @ + accumulation[cell]]
                   /\ indegree' = [indegree EXCEPT ![d] = @ - 1]
                   /\ queue' = IF indegree'[d] = 0
                               THEN Append(Tail(queue), d)
                               ELSE Tail(queue)
              ELSE /\ queue' = Tail(queue)
                   /\ UNCHANGED <<accumulation, indegree>>
    /\ UNCHANGED <<pc, rows, cols, nodata, dem, filled_dem, iterations, conditioned_dem,
                   flow_direction, nodata_mask, channel_mask, hand, hqueue,
                   hprocessed, cells_processed>>
    /\ UNCHANGED <<catchmentVars, floodVars, cacheVars, polygonVars, snapVars>>

\* the queue is empty: the statistics are logged and the grid is returned
AccReturn ==
    /\ pc = "acc_loop"
    /\ queue = <<>>
    /\ pc' = "acc_returned"
    /\ UNCHANGED <<rows, cols, nodata, dem, filled_dem, iterations, conditioned_dem,
                   flow_direction, nodata_mask, accumulation, indegree, queue,
                   processed, channel_mask, hand, hqueue, hprocessed, cells_processed>>
    /\ UNCHANGED <<catchmentVars, floodVars, cacheVars, orderVars, polygonVars, snapVars>>

(***************************************************************************)
(* extract_channel_mask                                                    *)
(***************************************************************************)
\* channels = flow_accumulation < threshold
extract_channel_mask_below(acc, threshold) == [cell \in DOMAIN acc |-> acc[cell] < threshold]

\* channels = flow_accumulation >= threshold
extract_channel_mask(acc, threshold) == [cell \in DOMAIN acc |-> acc[cell] >= threshold]

(***************************************************************************)
(* compute_hand                                                            *)
(***************************************************************************)
\* upstream_map of compute_hand: as upstream_cells, but only the cells whose
\* downstream cell is in bounds and not NoData are entered
upstream_map(fd, mask, r, c) ==
    [cell \in Cells(r, c) |->
        SelectSeq(CellSeq(r, c),
                  LAMBDA u : /\ ~mask[u]
                             /\ HasOffset(fd, u)
                             /\ Downstream(fd, u) = cell
                             /\ ~mask[cell])]

\* the cells the seeding loop appends: channel cells, outlets (code 0) and
\* cells that flow out of bounds or to NoData
IsSeed(fd, chan, mask, cell, r, c) ==
    /\ ~mask[cell]
    /\ \/ chan[cell]
       \/ fd[cell] = 0
       \/ /\ fd[cell] \in DOMAIN dir_to_offset
          /\ LET d == Downstream(fd, cell)
             IN  ~InBounds(d[1], d[2], r, c) \/ mask[d]

\* HandOf without the max(0.0, ...): hand[ui, uj] = elevation_diff + hand[i, j]
HandOfNoClamp(elev, h, u, cell) == ElevAdd(ElevSub(elev[u], elev[cell]), h[cell])

\* hand[ui, uj] = max(0.0, elevation_diff + hand[i, j])
HandOf(elev, h, u, cell) ==
    LET v == ElevAdd(ElevSub(elev[u], elev[cell]), h[cell])
    IN  IF ElevLess(v, Zero) THEN Zero ELSE v

\* the loop "for ui, uj in upstream_map[(i, j)]" from index k on, on the
\* triple <<hand, processed, queue>>
\* HandUpstream without the test "if processed[ui, uj]: continue"
RECURSIVE HandUpstreamNoProcessedTest(_, _, _, _, _)
HandUpstreamNoProcessedTest(elev, ups, cell, k, st) ==
    IF k > Len(ups) THEN st
    ELSE LET u == ups[k]
         IN  HandUpstreamNoProcessedTest(elev, ups, cell, k + 1,
                 << [st[1] EXCEPT ![u] = HandOf(elev, st[1], u, cell)],
                    [st[2] EXCEPT ![u] = TRUE],
                    Append(st[3], u) >>)

RECURSIVE HandUpstream(_, _, _, _, _)
HandUpstream(elev, ups, cell, k, st) ==
    IF k > Len(ups) THEN st
    ELSE LET u == ups[k]
         IN  IF st[2][u]
             THEN HandUpstream(elev, ups, cell, k + 1, st)
             ELSE HandUpstream(elev, ups, cell, k + 1,
                      << [st[1] EXCEPT ![u] = HandOf(elev, st[1], u, cell)],
                         [st[2] EXCEPT ![u] = TRUE],
                         Append(st[3], u) >>)

\* start of compute_hand up to the first test of "while queue"
HandStart ==
    /\ pc = "hand_start"
    /\ hand' = [cell \in Cells(rows, cols) |-> Zero]
    /\ hqueue' = SelectSeq(CellSeq(rows, cols),
                     LAMBDA u : IsSeed(flow_direction, channel_mask, nodata_mask,
                                       u, rows, cols))
    /\ hprocessed' = [cell \in Cells(rows, cols) |->
                         IsSeed(flow_direction, channel_mask, nodata_mask,
                                cell, rows, cols)]
    /\ cells_processed' = Len(hqueue')
    /\ pc' = "hand_loop"
    /\ UNCHANGED <<rows, cols, nodata, dem, filled_dem, iterations, conditioned_dem,
                   flow_direction, nodata_mask, accumulation, indegree, queue,
                   processed, channel_mask>>
    /\ UNCHANGED <<catchmentVars, floodVars, cacheVars, orderVars, polygonVars, snapVars>>

\* one pass of the body of "while queue" of compute_hand
HandPop ==
    /\ pc = "hand_loop"
    /\ hqueue /= <<>>
    /\ LET cell == Head(hqueue)
           ups == upstream_map(flow_direction, nodata_mask, rows, cols)[cell]
           st == HandUpstream(conditioned_dem, ups, cell, 1,
                              <<hand, hprocessed, Tail(hqueue)>>)
       IN  /\ hand' = st[1]
           /\ hprocessed' = st[2]
           /\ hqueue' = st[3]
           /\ cells_processed' = cells_processed + (Len(st[3]) - Len(Tail(hqueue)))
    /\ UNCHANGED <<pc, rows, cols, nodata, dem, filled_dem, iterations, conditioned_dem,
                   flow_direction, nodata_mask, accumulation, indegree, queue,
                   processed, channel_mask>>
    /\ UNCHANGED <<catchmentVars, floodVars, cacheVars, orderVars, polygonVars, snapVars>>

\* the queue is empty: the validation only logs, and the grid is returned
HandReturn ==
    /\ pc = "hand_loop"
    /\ hqueue = <<>>
    /\ pc' = "hand_returned"
    /\ UNCHANGED <<rows, cols, nodata, dem, filled_dem, iterations, conditioned_dem,
                   flow_direction, nodata_mask, accumulation, indegree, queue,
                   processed, channel_mask, hand, hqueue, hprocessed, cells_processed>>
    /\ UNCHANGED <<catchmentVars, floodVars, cacheVars, orderVars, polygonVars, snapVars>>

(***************************************************************************)
(* The pipeline: condition_dem, flow direction, accumulation, channels,    *)
(* HAND, composed as the callers compose them                              *)
(***************************************************************************)
\* thresholds tried for extract_channel_mask
Thresholds == {0, 2, 1000}

Elevations == {<<b, 0>> : b \in 0..MaxElev}

NoGrid == <<>>

\* no file
NoFile == <<>>

\* flood_mask has not been called
FloodIdle == flood_masks = <<>>

\* condition_dem has not been called and is given no file
CacheIdle ==
    /\ dem_file = NoFile
    /\ cache_file = NoFile
    /\ returned = <<>>

\* the value of a result variable before the call
NotCalled == [type |-> "not_called"]

\* compute_flow_accumulation has taken no cell
OrderIdle == taken = <<>>

\* flood_polygon and catchment_to_polygon have not been called
PolygonIdle ==
    /\ water_level = <<>>
    /\ feature = NotCalled
    /\ polygon = NotCalled

\* snap_pour_point has not been called
SnapIdle ==
    /\ orig_point = <<>>
    /\ search_radius = 0
    /\ snap_result = <<>>

\* delineate_catchment has not been called
CatchmentIdle ==
    /\ snapped_point = <<>>
    /\ catchment = NoGrid
    /\ cqueue = <<>>
    /\ visited = {}

\* fill_depressions(dem_array, nodata) as condition_dem calls it
FillDepressions ==
    /\ pc = "fill"
    /\ LET res == fill_depressions(dem, nodata, rows, cols)
       IN  /\ filled_dem' = res.dem
           /\ iterations' = res.iterations
           /\ pc' = IF res.raised THEN "fill_raised" ELSE "flats"
    /\ UNCHANGED <<rows, cols, nodata, dem, conditioned_dem, flow_direction,
                   nodata_mask, accumulation, indegree, queue, processed,
                   channel_mask, hand, hqueue, hprocessed, cells_processed>>
    /\ UNCHANGED <<catchmentVars, floodVars, cacheVars, orderVars, polygonVars, snapVars>>

\* the validation of condition_dem: with a NoData value, fewer cells differ
\* from it in the conditioned grid than in the raw one
ConditioningCreatedNodata(raw, conditioned, nd) ==
    /\ nd /= {}
    /\ Cardinality({cell \in DOMAIN conditioned : ValidMask(conditioned, nd)[cell]})
         < Cardinality({cell \in DOMAIN raw : ValidMask(raw, nd)[cell]})

\* ResolveFlats without the working copy: inflated_dem = filled_dem, so that
\* the gradient is added to the caller's filled_dem as well
ResolveFlatsInPlace ==
    /\ pc = "flats"
    /\ conditioned_dem' = resolve_flats(filled_dem, nodata, rows, cols)
    /\ filled_dem' = conditioned_dem'
    /\ pc' = IF ConditioningCreatedNodata(dem, conditioned_dem', nodata)
             THEN "condition_raised"
             ELSE "flowdir"
    /\ UNCHANGED <<rows, cols, nodata, dem, iterations, flow_direction,
                   nodata_mask, accumulation, indegree, queue, processed,
                   channel_mask, hand, hqueue, hprocessed, cells_processed>>
    /\ UNCHANGED <<catchmentVars, floodVars, cacheVars, orderVars, polygonVars, snapVars>>

\* resolve_flats(filled_dem, nodata) as condition_dem calls it, and the
\* validation that follows: ValueError when NoData cells were created
ResolveFlats ==
    /\ pc = "flats"
    /\ conditioned_dem' = resolve_flats(filled_dem, nodata, rows, cols)
    /\ pc' = IF ConditioningCreatedNodata(dem, conditioned_dem', nodata)
             THEN "condition_raised"
             ELSE "flowdir"
    /\ UNCHANGED <<rows, cols, nodata, dem, filled_dem, iterations, flow_direction,
                   nodata_mask, accumulation, indegree, queue, processed,
                   channel_mask, hand, hqueue, hprocessed, cells_processed>>
    /\ UNCHANGED <<catchmentVars, floodVars, cacheVars, orderVars, polygonVars, snapVars>>

\* compute_flow_direction(conditioned.data, nodata=conditioned.nodata), then
\* nodata_mask = (conditioned.data == conditioned.nodata) if the raster has a
\* NoData value, else None (all False)
FlowDirection ==
    /\ pc = "flowdir"
    /\ flow_direction' = compute_flow_direction(conditioned_dem, nodata, rows, cols)
    /\ nodata_mask' = [cell \in Cells(rows, cols) |->
                          ~ValidMask(conditioned_dem, nodata)[cell]]
    /\ pc' = "acc_start"
    /\ UNCHANGED <<rows, cols, nodata, dem, filled_dem, iterations, conditioned_dem,
                   accumulation, indegree, queue, processed, channel_mask, hand,
                   hqueue, hprocessed, cells_processed>>
    /\ UNCHANGED <<catchmentVars, floodVars, cacheVars, orderVars, polygonVars, snapVars>>

\* channels = extract_channel_mask(flow_acc, threshold)
ExtractChannelMask ==
    /\ pc = "acc_returned"
    /\ \E threshold \in Thresholds :
           channel_mask' = extract_channel_mask(accumulation, threshold)
    /\ pc' = "hand_start"
    /\ UNCHANGED <<rows, cols, nodata, dem, filled_dem, iterations, conditioned_dem,
                   flow_direction, nodata_mask, accumulation, indegree, queue,
                   processed, hand, hqueue, hprocessed, cells_processed>>
    /\ UNCHANGED <<catchmentVars, floodVars, cacheVars, orderVars, polygonVars, snapVars>>

\* a raw raster of Rows x Cols cells and its NoData value
Init ==
    /\ pc = "fill"
    /\ rows = Rows
    /\ cols = Cols
    /\ nodata \in {{}} \cup {{v} : v \in 0..MaxElev}
    /\ dem \in [Cells(Rows, Cols) -> Elevations]
    /\ filled_dem = NoGrid
    /\ iterations = 0
    /\ conditioned_dem = NoGrid
    /\ flow_direction = NoGrid
    /\ nodata_mask = NoGrid
    /\ accumulation = NoGrid
    /\ indegree = NoGrid
    /\ queue = <<>>
    /\ processed = 0
    /\ channel_mask = NoGrid
    /\ hand = NoGrid
    /\ hqueue = <<>>
    /\ hprocessed = NoGrid
    /\ cells_processed = 0
    /\ CatchmentIdle
    /\ FloodIdle
    /\ OrderIdle
    /\ PolygonIdle
    /\ SnapIdle
    /\ CacheIdle

Next ==
    \/ FillDepressions
    \/ ResolveFlats
    \/ FlowDirection
    \/ AccStart
    \/ AccPop
    \/ AccReturn
    \/ ExtractChannelMask
    \/ HandStart
    \/ HandPop
    \/ HandReturn

Spec == Init /\ [][Next]_vars

(***************************************************************************)
(* compute_flow_accumulation on any flow-direction grid and NoData mask    *)
(***************************************************************************)
\* the D8 codes: 0 and the eight directions
FlowCodes == {0, 1, 2, 4, 8, 16, 32, 64, 128}

InitAcc ==
    /\ pc = "acc_start"
    /\ rows = AccRows
    /\ cols = AccCols
    /\ flow_direction \in [Cells(AccRows, AccCols) -> FlowCodes]
    /\ nodata_mask \in [Cells(AccRows, AccCols) -> BOOLEAN]
    /\ nodata = {}
    /\ dem = NoGrid
    /\ filled_dem = NoGrid
    /\ iterations = 0
    /\ conditioned_dem = NoGrid
    /\ accumulation = NoGrid
    /\ indegree = NoGrid
    /\ queue = <<>>
    /\ processed = 0
    /\ channel_mask = NoGrid
    /\ hand = NoGrid
    /\ hqueue = <<>>
    /\ hprocessed = NoGrid
    /\ cells_processed = 0
    /\ CatchmentIdle
    /\ FloodIdle
    /\ OrderIdle
    /\ PolygonIdle
    /\ SnapIdle
    /\ CacheIdle

NextAcc == AccStart \/ AccPop \/ AccReturn

SpecAcc == InitAcc /\ [][NextAcc]_vars

(***************************************************************************)
(* compute_hand on any elevation grid, flow-direction grid, channel mask   *)
(* and NoData mask                                                         *)
(***************************************************************************)
\* on a single row every code but E (1) and W (16) leaves the grid: N (64)
\* stands for them
HandCodes == {0, 1, 16, 64}

InitHand ==
    /\ pc = "hand_start"
    /\ rows = HandRows
    /\ cols = HandCols
    /\ conditioned_dem \in [Cells(HandRows, HandCols) -> Elevations]
    /\ flow_direction \in [Cells(HandRows, HandCols) -> HandCodes]
    /\ channel_mask \in [Cells(HandRows, HandCols) -> BOOLEAN]
    /\ nodata_mask \in [Cells(HandRows, HandCols) -> BOOLEAN]
    /\ nodata = {}
    /\ dem = NoGrid
    /\ filled_dem = NoGrid
    /\ iterations = 0
    /\ accumulation = NoGrid
    /\ indegree = NoGrid
    /\ queue = <<>>
    /\ processed = 0
    /\ hand = NoGrid
    /\ hqueue = <<>>
    /\ hprocessed = NoGrid
    /\ cells_processed = 0
    /\ CatchmentIdle
    /\ FloodIdle
    /\ OrderIdle
    /\ PolygonIdle
    /\ SnapIdle
    /\ CacheIdle

NextHand == HandStart \/ HandPop \/ HandReturn

SpecHand == InitHand /\ [][NextHand]_vars

(***************************************************************************)
(* Flow direction and accumulation of a 3x3 grid without NoData whose      *)
(* centre is the lowest cell and the steepest descent of every other cell  *)
(* (test_simple_dem: no conditioning, nodata=None)                         *)
(***************************************************************************)
Center == <<1, 1>>

\* the slope from cell o along the k-th entry of D8_NEIGHBORS
SlopeAlong(grid, o, k) ==
    <<ElevSub(grid[o], grid[<<o[1] + D8_NEIGHBORS[k][1], o[2] + D8_NEIGHBORS[k][2]>>]),
      D8_NEIGHBORS[k][4]>>

CenterLowest(grid) ==
    \A o \in DOMAIN grid : o /= Center => ElevLess(grid[Center], grid[o])

CenterSteepest(grid) ==
    \A o \in DOMAIN grid : o /= Center =>
        \E kc \in 1..Len(D8_NEIGHBORS) :
            /\ <<o[1] + D8_NEIGHBORS[kc][1], o[2] + D8_NEIGHBORS[kc][2]>> = Center
            /\ \A k \in 1..Len(D8_NEIGHBORS) :
                   (/\ k /= kc
                    /\ InBounds(o[1] + D8_NEIGHBORS[k][1], o[2] + D8_NEIGHBORS[k][2], 3, 3))
                   => SlopeGreater(SlopeAlong(grid, o, kc), SlopeAlong(grid, o, k))

InitScenarioA ==
    /\ pc = "flowdir"
    /\ rows = 3
    /\ cols = 3
    /\ nodata = {}
    /\ dem \in [Cells(3, 3) -> {<<b, 0>> : b \in 0..ScenarioMaxElev}]
    /\ CenterLowest(dem)
    /\ CenterSteepest(dem)
    /\ filled_dem = NoGrid
    /\ iterations = 0
    /\ conditioned_dem = dem
    /\ flow_direction = NoGrid
    /\ nodata_mask = NoGrid
    /\ accumulation = NoGrid
    /\ indegree = NoGrid
    /\ queue = <<>>
    /\ processed = 0
    /\ channel_mask = NoGrid
    /\ hand = NoGrid
    /\ hqueue = <<>>
    /\ hprocessed = NoGrid
    /\ cells_processed = 0
    /\ CatchmentIdle
    /\ FloodIdle
    /\ OrderIdle
    /\ PolygonIdle
    /\ SnapIdle
    /\ CacheIdle

NextScenarioA == FlowDirection \/ AccStart \/ AccPop \/ AccReturn

SpecScenarioA == InitScenarioA /\ [][NextScenarioA]_vars

(***************************************************************************)
(* delineate_catchment                                                     *)
(***************************************************************************)
\* _build_upstream_map without "if nodata_mask[i, j]: continue"
build_upstream_map_keeps_nodata(fd, mask, r, c) ==
    [cell \in Cells(r, c) |->
        SelectSeq(CellSeq(r, c),
                  LAMBDA u : /\ HasOffset(fd, u)
                             /\ Downstream(fd, u) = cell
                             /\ ~mask[cell])]

\* _build_upstream_map(flow_direction, nodata_mask): for each cell the valid
\* cells with a code of dir_to_offset that points at it, in row-major order;
\* a cell that is NoData has no entry (an empty list)
build_upstream_map(fd, mask, r, c) ==
    [cell \in Cells(r, c) |->
        SelectSeq(CellSeq(r, c),
                  LAMBDA u : /\ ~mask[u]
                             /\ HasOffset(fd, u)
                             /\ Downstream(fd, u) = cell
                             /\ ~mask[cell])]

\* the pour points tried: every cell of the grid and one step beyond each
\* edge (row or column -1, rows or cols)
PourPoints(r, c) == ((-1)..r) \X ((-1)..c)

\* PourPointRaises without the test "if nodata_mask[pour_row, pour_col]"
PourPointRaisesNoNodataTest(p, mask, r, c) == ~InBounds(p[1], p[2], r, c)

\* the two "raise ValueError" of delineate_catchment: the pour point is
\* outside the grid, or on a NoData cell
PourPointRaises(p, mask, r, c) ==
    \/ ~InBounds(p[1], p[2], r, c)
    \/ mask[p]

\* CatchUpstream without "queue.append((ur, uc))"
RECURSIVE CatchUpstreamNoAppend(_, _, _)
CatchUpstreamNoAppend(ups, k, st) ==
    IF k > Len(ups) THEN st
    ELSE LET u == ups[k]
         IN  IF u \in st[2]
             THEN CatchUpstreamNoAppend(ups, k + 1, st)
             ELSE CatchUpstreamNoAppend(ups, k + 1,
                      << [st[1] EXCEPT ![u] = TRUE], st[2] \cup {u}, st[3] >>)

\* CatchUpstream without the test "if (ur, uc) not in visited"
RECURSIVE CatchUpstreamNoVisitedTest(_, _, _)
CatchUpstreamNoVisitedTest(ups, k, st) ==
    IF k > Len(ups) THEN st
    ELSE LET u == ups[k]
         IN  CatchUpstreamNoVisitedTest(ups, k + 1,
                 << [st[1] EXCEPT ![u] = TRUE],
                    st[2] \cup {u},
                    Append(st[3], u) >>)

\* the loop "for ur, uc in upstream_cells" from index k on, on the triple
\* <<catchment, visited, queue>>
RECURSIVE CatchUpstream(_, _, _)
CatchUpstream(ups, k, st) ==
    IF k > Len(ups) THEN st
    ELSE LET u == ups[k]
         IN  IF u \in st[2]
             THEN CatchUpstream(ups, k + 1, st)
             ELSE CatchUpstream(ups, k + 1,
                      << [st[1] EXCEPT ![u] = TRUE],
                         st[2] \cup {u},
                         Append(st[3], u) >>)

\* start of delineate_catchment(snapped_point, flow_direction, nodata_mask)
\* up to the first test of "while queue", called on its own or after the
\* accumulation as test_simple_catchment does
CatchStart ==
    /\ pc \in {"catch_start", "acc_returned"}
    /\ \E p \in PourPoints(rows, cols) :
           /\ snapped_point' = p
           /\ IF PourPointRaises(p, nodata_mask, rows, cols)
              THEN /\ pc' = "catch_raised"
                   /\ UNCHANGED <<catchment, cqueue, visited>>
              ELSE /\ catchment' = [cell \in Cells(rows, cols) |-> cell = p]
                   /\ cqueue' = <<p>>
                   /\ visited' = {p}
                   /\ pc' = "catch_loop"
    /\ UNCHANGED <<rows, cols, nodata, dem, filled_dem, iterations, conditioned_dem,
                   flow_direction, nodata_mask, accumulation, indegree, queue,
                   processed, channel_mask, hand, hqueue, hprocessed, cells_processed>>
    /\ UNCHANGED <<floodVars, cacheVars, orderVars, polygonVars, snapVars>>

\* one pass of the body of "while queue" of delineate_catchment
CatchPop ==
    /\ pc = "catch_loop"
    /\ cqueue /= <<>>
    /\ LET cell == Head(cqueue)
           ups == build_upstream_map(flow_direction, nodata_mask, rows, cols)[cell]
           st == CatchUpstream(ups, 1, <<catchment, visited, Tail(cqueue)>>)
       IN  /\ catchment' = st[1]
           /\ visited' = st[2]
           /\ cqueue' = st[3]
    /\ UNCHANGED <<pc, snapped_point, rows, cols, nodata, dem, filled_dem, iterations,
                   conditioned_dem, flow_direction, nodata_mask, accumulation,
                   indegree, queue, processed, channel_mask, hand, hqueue,
                   hprocessed, cells_processed>>
    /\ UNCHANGED <<floodVars, cacheVars, orderVars, polygonVars, snapVars>>

\* the queue is empty: the area is logged and the mask is returned
CatchReturn ==
    /\ pc = "catch_loop"
    /\ cqueue = <<>>
    /\ pc' = "catch_returned"
    /\ UNCHANGED <<rows, cols, nodata, dem, filled_dem, iterations, conditioned_dem,
                   flow_direction, nodata_mask, accumulation, indegree, queue,
                   processed, channel_mask, hand, hqueue, hprocessed, cells_processed,
                   catchmentVars, floodVars, cacheVars, orderVars, polygonVars, snapVars>>

(***************************************************************************)
(* delineate_catchment on any flow-direction grid, NoData mask and pour    *)
(* point                                                                   *)
(***************************************************************************)
InitCatch ==
    /\ pc = "catch_start"
    /\ rows = CatchRows
    /\ cols = CatchCols
    /\ flow_direction \in [Cells(CatchRows, CatchCols) -> FlowCodes]
    /\ nodata_mask \in [Cells(CatchRows, CatchCols) -> BOOLEAN]
    /\ nodata = {}
    /\ dem = NoGrid
    /\ filled_dem = NoGrid
    /\ iterations = 0
    /\ conditioned_dem = NoGrid
    /\ accumulation = NoGrid
    /\ indegree = NoGrid
    /\ queue = <<>>
    /\ processed = 0
    /\ channel_mask = NoGrid
    /\ hand = NoGrid
    /\ hqueue = <<>>
    /\ hprocessed = NoGrid
    /\ cells_processed = 0
    /\ CatchmentIdle
    /\ FloodIdle
    /\ OrderIdle
    /\ PolygonIdle
    /\ SnapIdle
    /\ CacheIdle

NextCatch == CatchStart \/ CatchPop \/ CatchReturn

SpecCatch == InitCatch /\ [][NextCatch]_vars

\* delineate_catchment on the single-row grids given to compute_hand, with
\* any pour point
InitCatchRow ==
    /\ pc = "catch_start"
    /\ rows = HandRows
    /\ cols = HandCols
    /\ flow_direction \in [Cells(HandRows, HandCols) -> HandCodes]
    /\ nodata_mask \in [Cells(HandRows, HandCols) -> BOOLEAN]
    /\ nodata = {}
    /\ dem = NoGrid
    /\ filled_dem = NoGrid
    /\ iterations = 0
    /\ conditioned_dem = NoGrid
    /\ accumulation = NoGrid
    /\ indegree = NoGrid
    /\ queue = <<>>
    /\ processed = 0
    /\ channel_mask = NoGrid
    /\ hand = NoGrid
    /\ hqueue = <<>>
    /\ hprocessed = NoGrid
    /\ cells_processed = 0
    /\ CatchmentIdle
    /\ FloodIdle
    /\ OrderIdle
    /\ PolygonIdle
    /\ SnapIdle
    /\ CacheIdle

\* delineate_catchment runs to its raise or its return: a synchronous call
\* that nothing suspends
SpecCatchFair == InitCatchRow /\ [][NextCatch]_vars /\ WF_vars(NextCatch)

(***************************************************************************)
(* Flow direction, accumulation and catchment of a grid without NoData     *)
(* whose elevations strictly decrease along every row and column toward    *)
(* the bottom-right corner (test_simple_catchment: no conditioning,        *)
(* nodata=None)                                                            *)
(***************************************************************************)
\* the first k values, in row-major order, of the r x c grids of elevations
\* 0..top that strictly decrease along every row and every column: a value
\* is below the one above it and the one to its left, and leaves room for
\* the values between it and the bottom-right corner
RECURSIVE DecreasingPrefixes(_, _, _, _)
DecreasingPrefixes(k, r, c, top) ==
    IF k = 0 THEN {<<>>}
    ELSE LET i == (k - 1) \div c
             j == (k - 1) % c
         IN  UNION {{Append(g, v) :
                        v \in {w \in ((r - 1 - i) + (c - 1 - j))..top :
                                  /\ i > 0 => w < g[k - c]
                                  /\ j > 0 => w < g[k - 1]}} :
                    g \in DecreasingPrefixes(k - 1, r, c, top)}

DecreasingGrids(r, c, top) ==
    {[cell \in Cells(r, c) |-> <<g[cell[1] * c + cell[2] + 1], 0>>] :
        g \in DecreasingPrefixes(r * c, r, c, top)}

InitScenarioB ==
    /\ pc = "flowdir"
    /\ rows = ScenarioBRows
    /\ cols = ScenarioBCols
    /\ nodata = {}
    /\ dem \in DecreasingGrids(ScenarioBRows, ScenarioBCols, ScenarioBMaxElev)
    /\ filled_dem = NoGrid
    /\ iterations = 0
    /\ conditioned_dem = dem
    /\ flow_direction = NoGrid
    /\ nodata_mask = NoGrid
    /\ accumulation = NoGrid
    /\ indegree = NoGrid
    /\ queue = <<>>
    /\ processed = 0
    /\ channel_mask = NoGrid
    /\ hand = NoGrid
    /\ hqueue = <<>>
    /\ hprocessed = NoGrid
    /\ cells_processed = 0
    /\ CatchmentIdle
    /\ FloodIdle
    /\ OrderIdle
    /\ PolygonIdle
    /\ SnapIdle
    /\ CacheIdle

NextScenarioB ==
    \/ FlowDirection
    \/ AccStart
    \/ AccPop
    \/ AccReturn
    \/ CatchStart
    \/ CatchPop
    \/ CatchReturn

SpecScenarioB == InitScenarioB /\ [][NextScenarioB]_vars

(***************************************************************************)
(* flood_mask on any HAND grid and NoData mask, at several water levels    *)
(* (test_flood_mask keeps the masks in a dict keyed by the water level)    *)
(***************************************************************************)
\* flood_mask with the comparison the other way round: hand_raster > water_level_m
flood_mask_above(hand_raster, water_level_m, mask) ==
    [cell \in DOMAIN hand_raster |->
        ElevLess(water_level_m, hand_raster[cell]) /\ ~mask[cell]]

\* flood_mask with hand_raster <= water_level_m
flood_mask_inclusive(hand_raster, water_level_m, mask) ==
    [cell \in DOMAIN hand_raster |->
        ElevLeq(hand_raster[cell], water_level_m) /\ ~mask[cell]]

\* flooded = (hand_raster < water_level_m) & (~nodata_mask)
flood_mask(hand_raster, water_level_m, mask) ==
    [cell \in DOMAIN hand_raster |->
        ElevLess(hand_raster[cell], water_level_m) /\ ~mask[cell]]

\* HAND values of the grids given to flood_mask
HandValues == {<<b, 0>> : b \in 0..MaxHand}

\* water levels tried: from 0 (below every cell) to above every HAND value
WaterLevels == {<<w, 0>> : w \in 0..(MaxHand + 1)}

\* mask = flood_mask(hand, water_level_m=wl, nodata_mask); flood_masks[wl] = mask,
\* on a HAND grid given as such or on the one compute_hand has returned
FloodMask ==
    /\ pc \in {"flood", "hand_returned"}
    /\ \E wl \in WaterLevels :
           flood_masks' = [w \in DOMAIN flood_masks \cup {wl} |->
                              IF w = wl THEN flood_mask(hand, wl, nodata_mask)
                              ELSE flood_masks[w]]
    /\ UNCHANGED <<pc, rows, cols, nodata, dem, filled_dem, iterations, conditioned_dem,
                   flow_direction, nodata_mask, accumulation, indegree, queue,
                   processed, channel_mask, hand, hqueue, hprocessed, cells_processed,
                   catchmentVars, cacheVars, orderVars, polygonVars, snapVars>>

InitFlood ==
    /\ pc = "flood"
    /\ rows = HandRows
    /\ cols = HandCols
    /\ hand \in [Cells(HandRows, HandCols) -> HandValues]
    /\ nodata_mask \in [Cells(HandRows, HandCols) -> BOOLEAN]
    /\ nodata = {}
    /\ dem = NoGrid
    /\ filled_dem = NoGrid
    /\ iterations = 0
    /\ conditioned_dem = NoGrid
    /\ flow_direction = NoGrid
    /\ accumulation = NoGrid
    /\ indegree = NoGrid
    /\ queue = <<>>
    /\ processed = 0
    /\ channel_mask = NoGrid
    /\ hqueue = <<>>
    /\ hprocessed = NoGrid
    /\ cells_processed = 0
    /\ CatchmentIdle
    /\ FloodIdle
    /\ OrderIdle
    /\ PolygonIdle
    /\ SnapIdle
    /\ CacheIdle

NextFlood == FloodMask

SpecFlood == InitFlood /\ [][NextFlood]_vars

(***************************************************************************)
(* condition_dem on a DEM file that is replaced between calls, with the    *)
(* cache directory it keeps on disk                                        *)
(***************************************************************************)
\* the contents a DEM file can have: a grid and a NoData value
DemFiles ==
    [data : [Cells(CacheRows, CacheCols) -> Elevations],
     nodata : {{}} \cup {{v} : v \in 0..MaxElev}]

\* load_dem, fill_depressions, resolve_flats on the content of a file
Conditioned(file) ==
    LET filled == fill_depressions(file.data, file.nodata, CacheRows, CacheCols)
    IN  [data |-> resolve_flats(filled.dem, file.nodata, CacheRows, CacheCols),
         nodata |-> file.nodata,
         raised |-> \/ filled.raised
                    \/ ConditioningCreatedNodata(
                           file.data,
                           resolve_flats(filled.dem, file.nodata, CacheRows, CacheCols),
                           file.nodata)]

\* condition_dem(dem_path, cache): with cache and a file at cache_path
\* (conditioned_<name of dem_path>), that file is returned; otherwise the DEM
\* is loaded and conditioned, and with cache the result is written to
\* cache_path
ConditionDem ==
    /\ pc \in {"cond_idle", "cond_returned", "cond_raised"}
    /\ \E cache \in BOOLEAN :
           IF cache /\ cache_file /= NoFile
           THEN /\ returned' = cache_file
                /\ pc' = "cond_returned"
                /\ UNCHANGED cache_file
           ELSE LET res == Conditioned(dem_file)
                IN  IF res.raised
                    THEN /\ pc' = "cond_raised"
                         /\ UNCHANGED <<returned, cache_file>>
                    ELSE /\ returned' = [data |-> res.data, nodata |-> res.nodata]
                         /\ cache_file' = IF cache THEN returned' ELSE cache_file
                         /\ pc' = "cond_returned"
    /\ UNCHANGED <<rows, cols, nodata, dem, filled_dem, iterations, conditioned_dem,
                   flow_direction, nodata_mask, accumulation, indegree, queue,
                   processed, channel_mask, hand, hqueue, hprocessed, cells_processed,
                   dem_file, catchmentVars, floodVars, orderVars, polygonVars, snapVars>>

\* between two calls the file at dem_path is replaced by another content
ReplaceFile ==
    /\ pc \in {"cond_returned", "cond_raised"}
    /\ \E file \in DemFiles :
           /\ file /= dem_file
           /\ dem_file' = file
    /\ pc' = "cond_idle"
    /\ UNCHANGED <<rows, cols, nodata, dem, filled_dem, iterations, conditioned_dem,
                   flow_direction, nodata_mask, accumulation, indegree, queue,
                   processed, channel_mask, hand, hqueue, hprocessed, cells_processed,
                   cache_file, returned, catchmentVars, floodVars, orderVars, polygonVars, snapVars>>

\* a DEM file and an empty cache directory
InitCache ==
    /\ pc = "cond_idle"
    /\ rows = CacheRows
    /\ cols = CacheCols
    /\ dem_file \in DemFiles
    /\ cache_file = NoFile
    /\ returned = <<>>
    /\ nodata = {}
    /\ dem = NoGrid
    /\ filled_dem = NoGrid
    /\ iterations = 0
    /\ conditioned_dem = NoGrid
    /\ flow_direction = NoGrid
    /\ nodata_mask = NoGrid
    /\ accumulation = NoGrid
    /\ indegree = NoGrid
    /\ queue = <<>>
    /\ processed = 0
    /\ channel_mask = NoGrid
    /\ hand = NoGrid
    /\ hqueue = <<>>
    /\ hprocessed = NoGrid
    /\ cells_processed = 0
    /\ CatchmentIdle
    /\ FloodIdle
    /\ OrderIdle
    /\ PolygonIdle
    /\ SnapIdle

NextCache == ConditionDem \/ ReplaceFile

SpecCache == InitCache /\ [][NextCache]_vars

(***************************************************************************)
(* flood_polygon and catchment_to_polygon on any mask.  A geometry is the  *)
(* set of the regions it covers, a region the set of its cells; areas are  *)
(* counted in cells (the factors for the cell size, degrees and km2 and    *)
(* the rounding are left out), 0 standing for 0.0.                         *)
(***************************************************************************)
\* None
None == [type |-> "None"]

\* np.sum(mask) of a boolean mask
CountTrue(mask) == Cardinality({cell \in DOMAIN mask : mask[cell]})

\* mask.astype(np.uint8)
astype_uint8(mask) == [cell \in DOMAIN mask |-> IF mask[cell] THEN 1 ELSE 0]

\* two cells share an edge (rasterio's default connectivity is 4)
Adjacent4(a, b) ==
    \/ a[1] = b[1] /\ (a[2] = b[2] + 1 \/ b[2] = a[2] + 1)
    \/ a[2] = b[2] /\ (a[1] = b[1] + 1 \/ b[1] = a[1] + 1)

\* the connected region of the cells of same that holds S
RECURSIVE Region(_, _)
Region(S, same) ==
    LET grown == S \cup {z \in same : \E y \in S : Adjacent4(y, z)}
    IN  IF grown = S THEN S ELSE Region(grown, same)

\* rasterio.features.shapes(source, mask=include): a pair (region, value) for
\* every connected region of cells of one value among the cells of include
shapes(source, include) ==
    {<<Region({cell}, {z \in DOMAIN source : include[z] /\ source[z] = source[cell]}),
       source[cell]>> : cell \in {z \in DOMAIN source : include[z]}}

\* flood_polygon without the test "if not geometries"
flood_polygon_no_empty_test(mask) ==
    LET mask_uint8 == astype_uint8(mask)
        geometries == {s[1] : s \in {t \in shapes(mask_uint8,
                                         [cell \in DOMAIN mask |-> mask_uint8[cell] = 1]) :
                                     t[2] = 1}}
        merged_geom == UNION geometries
    IN  [type |-> "Feature",
         geometry |-> [type |-> "MultiPolygon", regions |-> geometries],
         properties |-> [area_km2 |-> Cardinality(merged_geom),
                         area_m2 |-> Cardinality(merged_geom),
                         num_cells |-> CountTrue(mask),
                         crs |-> "crs"]]

\* flood_polygon(flood_mask, transform, crs, simplify_tolerance)
flood_polygon(mask) ==
    LET mask_uint8 == astype_uint8(mask)
        geometries == {s[1] : s \in {t \in shapes(mask_uint8,
                                         [cell \in DOMAIN mask |-> mask_uint8[cell] = 1]) :
                                     t[2] = 1}}
        merged_geom == UNION geometries
    IN  IF geometries = {}
        THEN [type |-> "Feature",
              geometry |-> None,
              properties |-> [area_km2 |-> 0, area_m2 |-> 0, num_cells |-> 0,
                              crs |-> "crs"]]
        ELSE [type |-> "Feature",
              geometry |-> [type |-> "MultiPolygon", regions |-> geometries],
              properties |-> [area_km2 |-> Cardinality(merged_geom),
                              area_m2 |-> Cardinality(merged_geom),
                              num_cells |-> CountTrue(mask),
                              crs |-> "crs"]]

\* the feature of catchment_to_polygon with the cells of the shape counted
catchment_feature_counts_shape(geom, mask) ==
    [type |-> "Feature",
     geometry |-> [type |-> "Polygon", regions |-> {geom}],
     properties |-> [area_cells |-> Cardinality(geom),
                     area_deg2 |-> Cardinality(geom),
                     area_km2_approx |-> Cardinality(geom),
                     crs |-> "crs"]]

\* the feature catchment_to_polygon builds for the shape geom of value 1
catchment_feature(geom, mask) ==
    [type |-> "Feature",
     geometry |-> [type |-> "Polygon", regions |-> {geom}],
     properties |-> [area_cells |-> CountTrue(mask),
                     area_deg2 |-> CountTrue(mask),
                     area_km2_approx |-> CountTrue(mask),
                     crs |-> "crs"]]

\* water_level = wl; mask = flood_masks[water_level];
\* polygon = flood_polygon(mask, transform, crs)
FloodPolygon ==
    /\ pc \in {"flood", "hand_returned"}
    /\ \E wl \in DOMAIN flood_masks :
           /\ water_level' = wl
           /\ feature' = flood_polygon(flood_masks[wl])
    /\ UNCHANGED <<pc, rows, cols, nodata, dem, filled_dem, iterations, conditioned_dem,
                   flow_direction, nodata_mask, accumulation, indegree, queue,
                   processed, channel_mask, hand, hqueue, hprocessed, cells_processed,
                   polygon, catchmentVars, floodVars, cacheVars, orderVars, snapVars>>

\* catchment_to_polygon(catchment, transform, crs), on a mask given as such
\* or on the one delineate_catchment has returned.  The order in which the
\* library yields the shapes is left open: any shape of value 1 may be the
\* first one.
CatchmentToPolygon ==
    /\ pc \in {"flood", "catch_returned"}
    /\ IF \A cell \in DOMAIN catchment : ~catchment[cell]
       THEN polygon' = None
       ELSE \E s \in shapes(astype_uint8(catchment), [cell \in DOMAIN catchment |-> TRUE]) :
                /\ s[2] = 1
                /\ polygon' = catchment_feature(s[1], catchment)
    /\ UNCHANGED <<pc, rows, cols, nodata, dem, filled_dem, iterations, conditioned_dem,
                   flow_direction, nodata_mask, accumulation, indegree, queue,
                   processed, channel_mask, hand, hqueue, hprocessed, cells_processed,
                   water_level, feature, catchmentVars, floodVars, cacheVars,
                   orderVars, snapVars>>

\* any HAND grid without NoData cells, from which flood_mask makes the masks
\* of flood_polygon, and any mask for catchment_to_polygon
InitPolygon ==
    /\ pc = "flood"
    /\ rows = PolyRows
    /\ cols = PolyCols
    /\ hand \in [Cells(PolyRows, PolyCols) -> HandValues]
    /\ nodata_mask = [cell \in Cells(PolyRows, PolyCols) |-> FALSE]
    /\ catchment \in [Cells(PolyRows, PolyCols) -> BOOLEAN]
    /\ nodata = {}
    /\ dem = NoGrid
    /\ filled_dem = NoGrid
    /\ iterations = 0
    /\ conditioned_dem = NoGrid
    /\ flow_direction = NoGrid
    /\ accumulation = NoGrid
    /\ indegree = NoGrid
    /\ queue = <<>>
    /\ processed = 0
    /\ channel_mask = NoGrid
    /\ hqueue = <<>>
    /\ hprocessed = NoGrid
    /\ cells_processed = 0
    /\ snapped_point = <<>>
    /\ cqueue = <<>>
    /\ visited = {}
    /\ FloodIdle
    /\ OrderIdle
    /\ PolygonIdle
    /\ SnapIdle
    /\ CacheIdle

NextPolygon == FloodMask \/ FloodPolygon \/ CatchmentToPolygon

SpecPolygon == InitPolygon /\ [][NextPolygon]_vars

(***************************************************************************)
(* Routing on any flow-direction grid and NoData mask: accumulation, then  *)
(* the channel mask or the catchment of a pour point                       *)
(***************************************************************************)
InitRouting ==
    /\ pc = "acc_start"
    /\ rows = RouteRows
    /\ cols = RouteCols
    /\ flow_direction \in [Cells(RouteRows, RouteCols) -> HandCodes]
    /\ nodata_mask \in [Cells(RouteRows, RouteCols) -> BOOLEAN]
    /\ nodata = {}
    /\ dem = NoGrid
    /\ filled_dem = NoGrid
    /\ iterations = 0
    /\ conditioned_dem = NoGrid
    /\ accumulation = NoGrid
    /\ indegree = NoGrid
    /\ queue = <<>>
    /\ processed = 0
    /\ channel_mask = NoGrid
    /\ hand = NoGrid
    /\ hqueue = <<>>
    /\ hprocessed = NoGrid
    /\ cells_processed = 0
    /\ CatchmentIdle
    /\ FloodIdle
    /\ OrderIdle
    /\ PolygonIdle
    /\ SnapIdle
    /\ CacheIdle

NextRouting ==
    \/ AccStart
    \/ AccPop
    \/ AccReturn
    \/ ExtractChannelMask
    \/ CatchStart
    \/ CatchPop
    \/ CatchReturn

SpecRouting == InitRouting /\ [][NextRouting]_vars

(***************************************************************************)
(* compute_flow_accumulation with the ready cells taken from the queue in  *)
(* any order                                                               *)
(***************************************************************************)
\* AccTake with accumulation[di, dj] = accumulation[i, j] + 1
AccTakeOverwrites(fd, mask, cell, st, r, c) ==
    LET d == Downstream(fd, cell)
    IN  IF HasOffset(fd, cell) /\ InBounds(d[1], d[2], r, c) /\ ~mask[d]
        THEN LET ind == [st[2] EXCEPT ![d] = @ - 1]
             IN  << [st[1] EXCEPT ![d] = st[1][cell] + 1],
                    ind,
                    IF ind[d] = 0 THEN Append(st[3], d) ELSE st[3] >>
        ELSE st

\* the body of "while queue" for the cell taken, on the triple
\* <<accumulation, indegree, queue without the cell>>
AccTake(fd, mask, cell, st, r, c) ==
    LET d == Downstream(fd, cell)
    IN  IF HasOffset(fd, cell) /\ InBounds(d[1], d[2], r, c) /\ ~mask[d]
        THEN LET ind == [st[2] EXCEPT ![d] = @ - 1]
             IN  << [st[1] EXCEPT ![d] = @ + st[1][cell]],
                    ind,
                    IF ind[d] = 0 THEN Append(st[3], d) ELSE st[3] >>
        ELSE st

\* the queue without its i-th element
Without(q, i) == SubSeq(q, 1, i - 1) \o SubSeq(q, i + 1, Len(q))

\* one pass of the body of "while queue" that takes any cell of the queue
AccPopAny ==
    /\ pc = "acc_loop"
    /\ queue /= <<>>
    /\ \E i \in 1..Len(queue) :
           LET st == AccTake(flow_direction, nodata_mask, queue[i],
                             <<accumulation, indegree, Without(queue, i)>>, rows, cols)
           IN  /\ accumulation' = st[1]
               /\ indegree' = st[2]
               /\ queue' = st[3]
               /\ taken' = Append(taken, queue[i])
               /\ processed' = processed + 1
    /\ UNCHANGED <<pc, rows, cols, nodata, dem, filled_dem, iterations, conditioned_dem,
                   flow_direction, nodata_mask, channel_mask, hand, hqueue,
                   hprocessed, cells_processed>>
    /\ UNCHANGED <<catchmentVars, floodVars, cacheVars, polygonVars, snapVars>>

\* the loop "while queue" with popleft, to its end: <<accumulation, cells taken>>
RECURSIVE AccRun(_, _, _, _, _, _)
AccRun(fd, mask, st, tk, r, c) ==
    IF st[3] = <<>> THEN <<st[1], tk>>
    ELSE AccRun(fd, mask,
                AccTake(fd, mask, Head(st[3]), <<st[1], st[2], Tail(st[3])>>, r, c),
                Append(tk, Head(st[3])), r, c)

\* compute_flow_accumulation(flow_direction, nodata_mask): the grid it returns
\* and the cells it has taken, in order
compute_flow_accumulation(fd, mask, r, c) ==
    AccRun(fd, mask,
           << [cell \in Cells(r, c) |-> IF mask[cell] THEN 0 ELSE 1],
              InitIndegree(fd, mask, r, c),
              SelectSeq(CellSeq(r, c),
                        LAMBDA u : ~mask[u] /\ InitIndegree(fd, mask, r, c)[u] = 0) >>,
           <<>>, r, c)

NextAccAnyOrder == AccStart \/ AccPopAny \/ AccReturn

SpecAccAnyOrder == InitAcc /\ [][NextAccAnyOrder]_vars

(***************************************************************************)
(* snap_pour_point on any accumulation grid, original index and radius.    *)
(* The index stands for what latlon_to_grid makes of (lat, lon); the       *)
(* distance is SqrtScale times the square root, rounded down.              *)
(***************************************************************************)
\* the indices a[lo:hi] selects along an axis of length n: a negative bound
\* counts from the end, and both are clipped to 0..n
PySlice(lo, hi, n) ==
    LET clip(x) == IF x < 0 THEN (IF x + n < 0 THEN 0 ELSE x + n)
                   ELSE IF x > n THEN n ELSE x
    IN  clip(lo)..(clip(hi) - 1)

\* max(a, b), min(a, b)
IntMax2(a, b) == IF a >= b THEN a ELSE b

IntMin2(a, b) == IF a <= b THEN a ELSE b

\* (i, j) comes before (k, l) in row-major order, or is the same
RowMajorLeq(a, b) == a[1] < b[1] \/ (a[1] = b[1] /\ a[2] <= b[2])

\* window = flow_accumulation[r_min:r_max, c_min:c_max]: the cells it holds
SnapWindow(orig, radius, r, c) ==
    LET r_min == IntMax2(0, orig[1] - radius)
        r_max == IntMin2(r, orig[1] + radius + 1)
        c_min == IntMax2(0, orig[2] - radius)
        c_max == IntMin2(c, orig[2] + radius + 1)
    IN  PySlice(r_min, r_max, r) \X PySlice(c_min, c_max, c)

\* np.unravel_index(np.argmax(window), window.shape), as a cell of the grid:
\* the first cell of the window in row-major order that holds its maximum
ArgMax(acc, window) ==
    CHOOSE z \in window :
        /\ \A y \in window : acc[y] <= acc[z]
        /\ \A y \in window : acc[y] = acc[z] => RowMajorLeq(z, y)

\* (snapped_row, snapped_col, float(snap_distance))
snap_pour_point(acc, orig, radius, r, c) ==
    LET z == ArgMax(acc, SnapWindow(orig, radius, r, c))
    IN  <<z[1], z[2],
          SqrtFx[(z[1] - orig[1]) * (z[1] - orig[1])
                 + (z[2] - orig[2]) * (z[2] - orig[2]) + 1]>>

\* the original indices tried
OrigPoints(r, c) == ((-OrigMargin)..(r - 1 + OrigMargin)) \X ((-OrigMargin)..(c - 1 + OrigMargin))

\* snap_pour_point(lat, lon, flow_accumulation, transform, search_radius):
\* np.argmax raises ValueError on an empty window
SnapPourPoint ==
    /\ pc \in {"snap", "acc_returned"}
    /\ \E orig \in OrigPoints(rows, cols), radius \in 0..MaxRadius :
           /\ orig_point' = orig
           /\ search_radius' = radius
           /\ IF SnapWindow(orig, radius, rows, cols) = {}
              THEN /\ snap_result' = <<>>
                   /\ pc' = "snap_raised"
              ELSE /\ snap_result' = snap_pour_point(accumulation, orig, radius, rows, cols)
                   /\ pc' = "snapped"
    /\ UNCHANGED <<rows, cols, nodata, dem, filled_dem, iterations, conditioned_dem,
                   flow_direction, nodata_mask, accumulation, indegree, queue,
                   processed, channel_mask, hand, hqueue, hprocessed, cells_processed,
                   catchmentVars, floodVars, cacheVars, orderVars, polygonVars>>

InitSnap ==
    /\ pc = "snap"
    /\ rows = SnapRows
    /\ cols = SnapCols
    /\ accumulation \in [Cells(SnapRows, SnapCols) -> 0..MaxAcc]
    /\ nodata = {}
    /\ dem = NoGrid
    /\ filled_dem = NoGrid
    /\ iterations = 0
    /\ conditioned_dem = NoGrid
    /\ flow_direction = NoGrid
    /\ nodata_mask = NoGrid
    /\ indegree = NoGrid
    /\ queue = <<>>
    /\ processed = 0
    /\ channel_mask = NoGrid
    /\ hand = NoGrid
    /\ hqueue = <<>>
    /\ hprocessed = NoGrid
    /\ cells_processed = 0
    /\ CatchmentIdle
    /\ FloodIdle
    /\ OrderIdle
    /\ PolygonIdle
    /\ SnapIdle
    /\ CacheIdle

NextSnap == SnapPourPoint

SpecSnap == InitSnap /\ [][NextSnap]_vars

(***************************************************************************)
(* The whole core on one raster: conditioning, flow direction,             *)
(* accumulation, then the catchment of a pour point, or the channels, HAND *)
(* and the flood masks                                                     *)
(***************************************************************************)
NextCore ==
    \/ Next
    \/ CatchStart
    \/ CatchPop
    \/ CatchReturn
    \/ FloodMask

SpecCore == Init /\ [][NextCore]_vars

\* the raw raster of a DEM file of CacheRows x CacheCols cells
InitCoreFile ==
    /\ pc = "fill"
    /\ rows = CacheRows
    /\ cols = CacheCols
    /\ nodata \in {{}} \cup {{v} : v \in 0..MaxElev}
    /\ dem \in [Cells(CacheRows, CacheCols) -> Elevations]
    /\ filled_dem = NoGrid
    /\ iterations = 0
    /\ conditioned_dem = NoGrid
    /\ flow_direction = NoGrid
    /\ nodata_mask = NoGrid
    /\ accumulation = NoGrid
    /\ indegree = NoGrid
    /\ queue = <<>>
    /\ processed = 0
    /\ channel_mask = NoGrid
    /\ hand = NoGrid
    /\ hqueue = <<>>
    /\ hprocessed = NoGrid
    /\ cells_processed = 0
    /\ CatchmentIdle
    /\ FloodIdle
    /\ OrderIdle
    /\ PolygonIdle
    /\ SnapIdle
    /\ CacheIdle

\* every operation of the core is a synchronous call that runs until it
\* returns or raises
SpecCoreFair == InitCoreFile /\ [][NextCore]_vars /\ WF_vars(NextCore)

(***************************************************************************)
(* Properties                                                              *)
(***************************************************************************)
\* the flow direction grid has been computed
FlowDone == pc \in {"acc_start", "acc_loop", "acc_returned",
                    "hand_start", "hand_loop", "hand_returned"}

ValidCells == {cell \in Cells(rows, cols) : ~nodata_mask[cell]}

\* the valid cell u has a code that points at the cell
FlowsInto(u, cell) ==
    /\ ~nodata_mask[u]
    /\ HasOffset(flow_direction, u)
    /\ Downstream(flow_direction, u) = cell

\* the valid cell has a code that points at a valid cell of the grid
HasValidDownstream(cell) ==
    /\ ~nodata_mask[cell]
    /\ HasOffset(flow_direction, cell)
    /\ LET d == Downstream(flow_direction, cell)
       IN  InBounds(d[1], d[2], rows, cols) /\ ~nodata_mask[d]

RECURSIVE SumOver(_, _)
SumOver(f, S) ==
    IF S = {} THEN 0
    ELSE LET x == CHOOSE x \in S : TRUE IN f[x] + SumOver(f, S \ {x})

\* following the codes from cur through valid cells for at most n steps
\* reaches the target
RECURSIVE Reaches(_, _, _)
Reaches(cur, target, n) ==
    /\ n > 0
    /\ HasValidDownstream(cur)
    /\ \/ Downstream(flow_direction, cur) = target
       \/ Reaches(Downstream(flow_direction, cur), target, n - 1)

\* C1: in the grid compute_flow_accumulation returns, every valid cell holds
\* 1 plus the sum of the accumulation of the valid cells whose code points at
\* it, whatever the flow-direction grid and the NoData mask.
C1_AccumulationEquation ==
    pc = "acc_returned" =>
        \A cell \in ValidCells :
            accumulation[cell]
              = 1 + SumOver(accumulation, {u \in ValidCells : FlowsInto(u, cell)})

\* C2: the flow directions computed from the conditioned grid have no cycle:
\* no valid cell's flow path comes back to the cell.
C2_ConditionedFlowAcyclic ==
    (FlowDone /\ dem /= NoGrid) =>
        \A cell \in ValidCells : ~Reaches(cell, cell, rows * cols)

\* C3: compute_flow_accumulation returns a grid only if it has taken every
\* valid cell from the queue (a cycle is reported, never returned from).
C3_ReturnsOnlyIfAllProcessed ==
    pc = "acc_returned" => processed = Cardinality(ValidCells)

\* C4: on a 3x3 grid without NoData whose centre is strictly the lowest cell
\* and the steepest descent of each outer cell, the accumulation returned for
\* the centre is 9.
C4_CenterCollectsAllNine ==
    (pc = "acc_returned" /\ CenterLowest(conditioned_dem)
        /\ CenterSteepest(conditioned_dem))
    => accumulation[Center] = 9

\* C5: every valid cell with a non-zero code points at a cell that is not
\* higher than the cell itself.
C5_NeverUphill ==
    FlowDone =>
        \A cell \in ValidCells :
            (HasOffset(flow_direction, cell) /\ conditioned_dem /= NoGrid) =>
                LET d == Downstream(flow_direction, cell)
                IN  /\ InBounds(d[1], d[2], rows, cols)
                    /\ ElevLeq(conditioned_dem[d], conditioned_dem[cell])

\* C6: a valid cell without a strictly lower valid neighbour has code 0.
C6_OutletWithoutLowerNeighbour ==
    (FlowDone /\ dem /= NoGrid) =>
        \A cell \in ValidCells :
            (\A n \in (Window(cell, rows, cols) \cap ValidCells) :
                 ~ElevLess(conditioned_dem[n], conditioned_dem[cell]))
            => flow_direction[cell] = 0

\* C7: when fill_depressions returns with fewer than 100 iterations, no valid
\* cell off the boundary of the filled grid is strictly lower than all of its
\* 8 neighbours.
C7_NoPitLeft ==
    (pc \notin {"fill", "fill_raised"} /\ dem /= NoGrid /\ iterations < max_iterations) =>
        \A cell \in Cells(rows, cols) :
            (/\ ValidMask(dem, nodata)[cell]
             /\ Cardinality(Window(cell, rows, cols)) = 9)
            => \E n \in Window(cell, rows, cols) \ {cell} :
                   ElevLeq(filled_dem[n], filled_dem[cell])

\* C8: in the grid compute_hand returns, a valid cell that is no channel cell
\* and whose code points at a valid cell d of the grid has
\* hand = max(0, elevation - elevation[d] + hand[d]).
C8_HandRecurrence ==
    pc = "hand_returned" =>
        \A cell \in ValidCells :
            (~channel_mask[cell] /\ HasValidDownstream(cell)) =>
                hand[cell] = HandOf(conditioned_dem, hand, cell,
                                    Downstream(flow_direction, cell))

\* C9: with the flow directions of compute_flow_direction and a channel mask
\* from extract_channel_mask at any threshold, compute_hand reaches every
\* valid cell: cells_processed equals the number of valid cells.
C9_HandReachesAllValid ==
    (pc = "hand_returned" /\ dem /= NoGrid) =>
        cells_processed = Cardinality(ValidCells)

\* C10: in the grid compute_hand returns, every channel cell and every valid
\* cell with code 0 has HAND 0.
C10_ChannelAndOutletZero ==
    pc = "hand_returned" =>
        \A cell \in Cells(rows, cols) :
            (channel_mask[cell] \/ (~nodata_mask[cell] /\ flow_direction[cell] = 0))
            => hand[cell] = Zero

\* a channel cell that lies above the valid cell it flows into has been
\* returned with HAND 0
C10_Witness ==
    /\ pc = "hand_returned"
    /\ \E cell \in ValidCells :
           /\ channel_mask[cell]
           /\ HasValidDownstream(cell)
           /\ ElevLess(conditioned_dem[Downstream(flow_direction, cell)],
                       conditioned_dem[cell])
           /\ hand[cell] = Zero

\* C11: whatever the elevations, codes, channel mask and NoData mask given to
\* compute_hand (flow paths along which the elevation rises included), no
\* cell of the HAND grid is negative, while the loop runs and on return.
C11_HandNonNegative ==
    pc \in {"hand_loop", "hand_returned"} =>
        \A cell \in Cells(rows, cols) : ElevLeq(Zero, hand[cell])

\* compute_hand has returned after giving HAND 0 to a cell that is no seed
\* and lies strictly below the cell it flows into
C11_Witness ==
    /\ pc = "hand_returned"
    /\ \E cell \in ValidCells :
           /\ ~IsSeed(flow_direction, channel_mask, nodata_mask, cell, rows, cols)
           /\ hprocessed[cell]
           /\ ElevLess(conditioned_dem[cell],
                       conditioned_dem[Downstream(flow_direction, cell)])
           /\ hand[cell] = Zero

\* the valid cells from which following the codes through valid cells reaches
\* the cell p in zero or more steps
DrainsTo(p) == {cell \in ValidCells : cell = p \/ Reaches(cell, p, rows * cols)}

\* C12: whatever the flow-direction grid (cyclic or not), the NoData mask and
\* the valid pour point in the grid, the mask delineate_catchment returns
\* holds exactly the valid cells whose flow path through valid cells reaches
\* the pour point in zero or more steps, the pour point among them.
C12_CatchmentIsDrainageSet ==
    pc = "catch_returned" =>
        /\ catchment[snapped_point]
        /\ {cell \in Cells(rows, cols) : catchment[cell]} = DrainsTo(snapped_point)

\* delineate_catchment has returned a mask of more than one cell, on a grid
\* with a NoData cell whose code points into the mask and a cycle through
\* the pour point
C12_Witness ==
    /\ pc = "catch_returned"
    /\ Cardinality(DrainsTo(snapped_point)) > 1
    /\ Reaches(snapped_point, snapped_point, rows * cols)
    /\ \E u \in Cells(rows, cols) :
           /\ nodata_mask[u]
           /\ HasOffset(flow_direction, u)
           /\ Downstream(flow_direction, u) \in DrainsTo(snapped_point)

\* the bottom-right corner of the grid
Corner == <<rows - 1, cols - 1>>

\* C13: on a grid without NoData whose elevations strictly decrease along
\* every row and every column toward the bottom-right corner, the mask
\* delineate_catchment returns for that corner, on the codes of
\* compute_flow_direction, holds every cell of the grid.
C13_CornerCatchmentIsWholeGrid ==
    (pc = "catch_returned" /\ dem /= NoGrid /\ snapped_point = Corner) =>
        /\ \A cell \in Cells(rows, cols) : catchment[cell]
        /\ Cardinality({cell \in Cells(rows, cols) : catchment[cell]}) = rows * cols

\* the whole grid has been returned as the catchment of the corner, for a
\* grid that is not the one of the test: a cell away from the diagonal
\* flows diagonally
C13_Witness ==
    /\ pc = "catch_returned"
    /\ dem /= NoGrid
    /\ snapped_point = Corner
    /\ \A cell \in Cells(rows, cols) : catchment[cell]
    /\ \E cell \in Cells(rows, cols) :
           cell[1] /= cell[2] /\ flow_direction[cell] = 2
    /\ \E cell \in Cells(rows, cols) : flow_direction[cell] \in {1, 4}

\* the pour point lies in the grid and on a cell that is not NoData
PourPointAccepted ==
    /\ InBounds(snapped_point[1], snapped_point[2], rows, cols)
    /\ ~nodata_mask[snapped_point]

\* C14: delineate_catchment raises, with no mask, when the row or the column
\* of the pour point is outside the grid (negative included) or the pour
\* point is a NoData cell; for every other pour point it goes on to the
\* traversal and returns a mask.
C14_RaisesExactlyOnBadPourPoint ==
    /\ [](pc = "catch_raised" => (~PourPointAccepted /\ catchment = NoGrid))
    /\ [](pc \in {"catch_loop", "catch_returned"} =>
             (PourPointAccepted /\ DOMAIN catchment = Cells(rows, cols)))
    /\ <>(pc \in {"catch_raised", "catch_returned"})
    /\ [](pc = "catch_loop" => <>(pc = "catch_returned"))

\* delineate_catchment has raised for a pour point in the grid that is a
\* NoData cell with a code pointing at a valid cell
C14_Witness ==
    /\ pc = "catch_raised"
    /\ InBounds(snapped_point[1], snapped_point[2], rows, cols)
    /\ nodata_mask[snapped_point]
    /\ HasOffset(flow_direction, snapped_point)
    /\ LET d == Downstream(flow_direction, snapped_point)
       IN  InBounds(d[1], d[2], rows, cols) /\ ~nodata_mask[d]

\* the cells a mask holds
Flooded(mask) == {cell \in DOMAIN mask : mask[cell]}

\* C15: for every HAND grid and NoData mask and every two water levels
\* w1 < w2, every cell flood_mask floods at w1 is flooded at w2, so the number
\* of flooded cells does not decrease.
C15_FloodMonotone ==
    \A w1, w2 \in DOMAIN flood_masks :
        ElevLess(w1, w2) =>
            /\ Flooded(flood_masks[w1]) \subseteq Flooded(flood_masks[w2])
            /\ Cardinality(Flooded(flood_masks[w1]))
                 <= Cardinality(Flooded(flood_masks[w2]))

\* two masks have been returned, the one of the higher level holding the
\* cells of the lower one and more, with a NoData cell of low HAND in neither
C15_Witness ==
    \E w1, w2 \in DOMAIN flood_masks :
        /\ ElevLess(w1, w2)
        /\ Flooded(flood_masks[w1]) /= {}
        /\ Flooded(flood_masks[w1]) /= Flooded(flood_masks[w2])
        /\ Flooded(flood_masks[w1]) \subseteq Flooded(flood_masks[w2])
        /\ \E cell \in Cells(rows, cols) :
               nodata_mask[cell] /\ ElevLess(hand[cell], w1)

ConditioningDone ==
    /\ dem /= NoGrid
    /\ pc \notin {"fill", "fill_raised", "flats", "condition_raised"}

\* C17: every valid cell of the grid fill_depressions returns, and of the
\* grid resolve_flats returns for it, is at least as high as in the raw grid.
C17_NeverLowers ==
    /\ (dem /= NoGrid /\ pc \notin {"fill", "fill_raised"}) =>
           \A cell \in Cells(rows, cols) :
               ValidMask(dem, nodata)[cell] => ElevLeq(dem[cell], filled_dem[cell])
    /\ ConditioningDone =>
           \A cell \in Cells(rows, cols) :
               ValidMask(dem, nodata)[cell] => ElevLeq(dem[cell], conditioned_dem[cell])

\* conditioning has returned a grid with a NoData cell in which resolve_flats
\* has raised a valid cell above its raw elevation and left another as it was
C17_Witness ==
    /\ ConditioningDone
    /\ \E cell \in Cells(rows, cols) : ~ValidMask(dem, nodata)[cell]
    /\ \E cell \in Cells(rows, cols) :
           ValidMask(dem, nodata)[cell] /\ ElevLess(dem[cell], conditioned_dem[cell])
    /\ \E cell \in Cells(rows, cols) :
           ValidMask(dem, nodata)[cell] /\ dem[cell] = conditioned_dem[cell]

\* the cells of a grid that hold the NoData value
NodataCells(grid) == {cell \in DOMAIN grid : ~ValidMask(grid, nodata)[cell]}

C19_ReturnsConditioningOfCurrentFile ==
    pc = "cond_returned" =>
        /\ returned.data = Conditioned(dem_file).data
        /\ returned.nodata = dem_file.nodata

\* C20: no operation writes to a grid it is given.  A grid that exists is an
\* input of every later step (the raw, filled and conditioned elevations,
\* the flow directions, the NoData mask, the channel mask), and so are the
\* accumulation and HAND grids once their own computation has returned:
\* every step leaves them as they were.
C20_InputsNotMutated ==
    [][/\ dem /= NoGrid => dem' = dem
       /\ filled_dem /= NoGrid => filled_dem' = filled_dem
       /\ conditioned_dem /= NoGrid => conditioned_dem' = conditioned_dem
       /\ flow_direction /= NoGrid => flow_direction' = flow_direction
       /\ nodata_mask /= NoGrid => nodata_mask' = nodata_mask
       /\ channel_mask /= NoGrid => channel_mask' = channel_mask
       /\ pc \notin {"acc_start", "acc_loop"} => accumulation' = accumulation
       /\ pc \notin {"hand_start", "hand_loop"} => hand' = hand]_vars

\* every operation has run on grids that earlier ones produced: resolve_flats
\* has raised a cell of the filled grid it was given, compute_hand has given
\* a cell a positive HAND, and flood_mask has flooded a cell
C20_Witness ==
    /\ pc = "hand_returned"
    /\ filled_dem = dem
    /\ conditioned_dem /= filled_dem
    /\ \E cell \in Cells(rows, cols) : ElevLess(Zero, hand[cell])
    /\ \E w \in DOMAIN flood_masks : Flooded(flood_masks[w]) /= {}

\* C21: every traversal terminates on every input: the queue loops of
\* compute_flow_accumulation, compute_hand and delineate_catchment run until
\* their queue is empty and the function returns, also on flow directions
\* with cycles, and the loop of fill_depressions ends within 100 passes.
C21_TraversalsTerminate ==
    /\ (pc = "acc_loop") ~> (pc = "acc_returned")
    /\ (pc = "hand_loop") ~> (pc = "hand_returned")
    /\ (pc = "catch_loop") ~> (pc = "catch_returned")
    /\ (pc = "fill") ~> (pc \in {"flats", "fill_raised"})
    /\ [](iterations <= max_iterations)

\* delineate_catchment has returned for a pour point that lies on a cycle
\* of the flow directions, after compute_flow_accumulation had returned
\* without taking the cells of the cycle from its queue
C21_Witness ==
    /\ pc = "catch_returned"
    /\ Reaches(snapped_point, snapped_point, rows * cols)
    /\ processed < Cardinality(ValidCells)
    /\ Cardinality({cell \in Cells(rows, cols) : catchment[cell]}) > 1

(***************************************************************************)
(* C22: an all-false mask gives an explicit empty result: flood_polygon    *)
(* returns a Feature whose geometry is None with area_km2 = 0.0,           *)
(* area_m2 = 0.0 and num_cells = 0, and catchment_to_polygon returns None  *)
(* (neither call has a raising outcome)                                    *)
(***************************************************************************)
C22_EmptyMaskGivesEmptyResult ==
    /\ (feature /= NotCalled /\ CountTrue(flood_masks[water_level]) = 0)
         => /\ feature.type = "Feature"
            /\ feature.geometry = None
            /\ feature.properties.area_km2 = 0
            /\ feature.properties.area_m2 = 0
            /\ feature.properties.num_cells = 0
    /\ (polygon /= NotCalled /\ CountTrue(catchment) = 0) => polygon = None

\* both functions have returned for an all-false mask
C22_Witness ==
    /\ feature /= NotCalled
    /\ CountTrue(flood_masks[water_level]) = 0
    /\ polygon /= NotCalled
    /\ CountTrue(catchment) = 0

ValidNeighbors(cell) ==
    {k \in 1..Len(D8_NEIGHBORS) :
        /\ InBounds(cell[1] + D8_NEIGHBORS[k][1], cell[2] + D8_NEIGHBORS[k][2], rows, cols)
        /\ ~nodata_mask[<<cell[1] + D8_NEIGHBORS[k][1], cell[2] + D8_NEIGHBORS[k][2]>>]}

\* the elevation of the k-th neighbour
NeighborElev(cell, k) ==
    conditioned_dem[<<cell[1] + D8_NEIGHBORS[k][1], cell[2] + D8_NEIGHBORS[k][2]>>]

\* the slope from the cell to its k-th neighbour
SlopeTo(cell, k) ==
    <<ElevSub(conditioned_dem[cell], NeighborElev(cell, k)), D8_NEIGHBORS[k][4]>>

\* the k-th neighbour is the first of the valid neighbours of maximal slope
FirstSteepest(cell, k) ==
    /\ k \in ValidNeighbors(cell)
    /\ \A m \in ValidNeighbors(cell) :
           /\ ~SlopeGreater(SlopeTo(cell, m), SlopeTo(cell, k))
           /\ m < k => SlopeGreater(SlopeTo(cell, k), SlopeTo(cell, m))

C24_SteepestFirstInOrder ==
    (FlowDone /\ conditioned_dem /= NoGrid) =>
        /\ \A cell \in ValidCells :
               (\E m \in ValidNeighbors(cell) :
                    ElevLess(NeighborElev(cell, m), conditioned_dem[cell]))
               => \E k \in 1..Len(D8_NEIGHBORS) :
                      /\ flow_direction[cell] = D8_NEIGHBORS[k][3]
                      /\ FirstSteepest(cell, k)
        /\ \A cell \in Cells(rows, cols) :
               nodata_mask[cell] => flow_direction[cell] = 0
        /\ \A cell \in ValidCells :
               HasOffset(flow_direction, cell) =>
                   /\ InBounds(Downstream(flow_direction, cell)[1],
                               Downstream(flow_direction, cell)[2], rows, cols)
                   /\ ~nodata_mask[Downstream(flow_direction, cell)]

\* on a grid with a NoData cell a valid cell has two valid neighbours of the
\* same maximal downward slope and the code of the first one
C24_Witness ==
    /\ FlowDone
    /\ conditioned_dem /= NoGrid
    /\ \E n \in Cells(rows, cols) : nodata_mask[n]
    /\ \E cell \in ValidCells :
           /\ \E k, m \in ValidNeighbors(cell) :
                  /\ k < m
                  /\ FirstSteepest(cell, k)
                  /\ ~SlopeGreater(SlopeTo(cell, k), SlopeTo(cell, m))
                  /\ ElevLess(NeighborElev(cell, k), conditioned_dem[cell])
                  /\ flow_direction[cell] = D8_NEIGHBORS[k][3]

(***************************************************************************)
(* C26: for every valid cell whose flow path reaches a channel cell or an  *)
(* outlet cell, the HAND value compute_hand returns is the elevation of    *)
(* the cell minus the elevation of the first channel or outlet cell on     *)
(* its flow path                                                           *)
(***************************************************************************)
\* the first cell on the flow path of the cell (the cell included) that is a
\* channel cell or an outlet; <<>> when the path has none within n steps
RECURSIVE FirstDrainage(_, _)
FirstDrainage(cell, n) ==
    IF IsSeed(flow_direction, channel_mask, nodata_mask, cell, rows, cols) THEN cell
    ELSE IF n = 0 \/ ~HasValidDownstream(cell) THEN <<>>
    ELSE FirstDrainage(Downstream(flow_direction, cell), n - 1)

C26_HandIsHeightAboveDrainage ==
    pc = "hand_returned" =>
        \A cell \in ValidCells :
            LET s == FirstDrainage(cell, rows * cols)
            IN  s /= <<>> =>
                    hand[cell] = ElevSub(conditioned_dem[cell], conditioned_dem[s])

\* no valid cell's flow path through valid cells comes back to the cell
Acyclic == \A cell \in ValidCells : ~Reaches(cell, cell, rows * cols)

\* compute_flow_accumulation has returned its grid
AccDone == pc \in {"acc_returned", "hand_start", "catch_loop", "catch_raised",
                   "catch_returned"}

(***************************************************************************)
(* C25: on an acyclic flow graph, with one NoData mask for both calls, the *)
(* accumulation of every valid cell p is the number of valid cells whose   *)
(* flow path passes through p (p included), which is the number of cells   *)
(* of delineate_catchment(p); NoData cells have accumulation 0             *)
(***************************************************************************)
C25_AccumulationIsCatchmentSize ==
    (AccDone /\ Acyclic) =>
        /\ \A p \in ValidCells : accumulation[p] = Cardinality(DrainsTo(p))
        /\ \A cell \in Cells(rows, cols) : nodata_mask[cell] => accumulation[cell] = 0
        /\ pc = "catch_returned" =>
               accumulation[snapped_point]
                 = Cardinality({cell \in Cells(rows, cols) : catchment[cell]})

\* both calls have returned on an acyclic grid with a NoData cell, the pour
\* point having two cells that flow into it
C25_Witness ==
    /\ pc = "catch_returned"
    /\ Acyclic
    /\ \E cell \in Cells(rows, cols) : nodata_mask[cell]
    /\ Cardinality(DrainsTo(snapped_point)) > 1
    /\ accumulation[snapped_point] > 1

(***************************************************************************)
(* C27: compute_flow_accumulation takes a cell from the queue only after   *)
(* every valid cell that flows into it has been taken, and no cell twice;  *)
(* the accumulation of a cell does not change any more from the step that  *)
(* takes it, so what it adds downstream is its final value                 *)
(***************************************************************************)
\* the cells taken from the queue before the i-th one
TakenBefore(i) == {taken[j] : j \in 1..(i - 1)}

C27_TakenAfterAllUpstream ==
    /\ [](pc \in {"acc_loop", "acc_returned"} =>
            \A i \in 1..Len(taken) :
                /\ taken[i] \notin TakenBefore(i)
                /\ \A u \in ValidCells :
                       FlowsInto(u, taken[i]) => u \in TakenBefore(i))
    /\ [][pc = "acc_loop" =>
            \A i \in 1..Len(taken') :
                accumulation'[taken'[i]] = accumulation[taken'[i]]]_vars

\* the call has returned after it took a cell that two cells flow into
C27_Witness ==
    /\ pc = "acc_returned"
    /\ \E i \in 1..Len(taken) :
           Cardinality({u \in ValidCells : FlowsInto(u, taken[i])}) > 1

(***************************************************************************)
(* C29: whatever the flow-direction grid, cyclic or not, the grid          *)
(* compute_flow_accumulation returns and the set of cells it processes are *)
(* the same for every order in which the ready cells are taken from the    *)
(* queue: they are those of the order of popleft                           *)
(***************************************************************************)
C29_OrderIndependent ==
    pc = "acc_returned" =>
        LET fifo == compute_flow_accumulation(flow_direction, nodata_mask, rows, cols)
        IN  /\ accumulation = fifo[1]
            /\ {taken[i] : i \in 1..Len(taken)} = {fifo[2][i] : i \in 1..Len(fifo[2])}

\* the call has returned after taking the cells in another order than
\* popleft does, among them a cell that two cells flow into
C29_Witness ==
    /\ pc = "acc_returned"
    /\ taken /= compute_flow_accumulation(flow_direction, nodata_mask, rows, cols)[2]
    /\ \E cell \in ValidCells :
           /\ Cardinality({u \in ValidCells : FlowsInto(u, cell)}) > 1
           /\ \E i \in 1..Len(taken) : taken[i] = cell

(***************************************************************************)
(* C30: on an acyclic flow graph the accumulation strictly increases along *)
(* every flow edge between valid cells, so the channel mask of every       *)
(* threshold is closed downstream; at a threshold of at least 1 no NoData  *)
(* cell is a channel cell                                                  *)
(***************************************************************************)
C30_ChannelsClosedDownstream ==
    (pc = "hand_start" /\ Acyclic) =>
        /\ \A u \in ValidCells :
               HasValidDownstream(u) =>
                   /\ accumulation[u] < accumulation[Downstream(flow_direction, u)]
                   /\ channel_mask[u] => channel_mask[Downstream(flow_direction, u)]
        /\ \A threshold \in Thresholds :
               (threshold >= 1
                  /\ channel_mask = [cell \in Cells(rows, cols) |->
                                        accumulation[cell] >= threshold])
               => \A cell \in Cells(rows, cols) : nodata_mask[cell] => ~channel_mask[cell]

\* the channel mask of an acyclic grid with a NoData cell holds a cell and
\* the cell it flows into, and not every valid cell
C30_Witness ==
    /\ pc = "hand_start"
    /\ Acyclic
    /\ \E cell \in Cells(rows, cols) : nodata_mask[cell]
    /\ \E u \in ValidCells : HasValidDownstream(u) /\ channel_mask[u]
    /\ \E u \in ValidCells : ~channel_mask[u]

(***************************************************************************)
(* C28: for every original index, in the grid or off it, the cell          *)
(* snap_pour_point returns lies in the grid, at most search_radius rows    *)
(* and columns from the original index; no cell of the grid in that square *)
(* window has a larger accumulation, and none that comes earlier in        *)
(* row-major order has the same; the distance returned is the Euclidean    *)
(* distance of the two indices                                             *)
(***************************************************************************)
\* the cells of the grid at most search_radius rows and columns from the
\* original index
SearchSquare ==
    {z \in Cells(rows, cols) :
        /\ z[1] - orig_point[1] \in (-search_radius)..search_radius
        /\ z[2] - orig_point[2] \in (-search_radius)..search_radius}

C28_SnapsToMaximumInWindow ==
    pc = "snapped" =>
        LET z == <<snap_result[1], snap_result[2]>>
        IN  /\ z \in Cells(rows, cols)
            /\ z \in SearchSquare
            /\ \A y \in SearchSquare :
                   /\ accumulation[y] <= accumulation[z]
                   /\ accumulation[y] = accumulation[z] => RowMajorLeq(z, y)
            /\ snap_result[3]
                 = SqrtFx[(z[1] - orig_point[1]) * (z[1] - orig_point[1])
                          + (z[2] - orig_point[2]) * (z[2] - orig_point[2]) + 1]

====
